---- MODULE Spec2Model ----
(***************************************************************************)
(* Model of the asya actor runtime (src/asya-runtime/asya_runtime.py) and  *)
(* of the sidecar's router, which drives the runtime over its Unix socket  *)
(* and publishes the outcome of every delivery to the broker.              *)
(*                                                                         *)
(* The runtime is translated from its Python source.  The sidecar is a Go  *)
(* program whose source is not part of src/; it is modelled from sections  *)
(* 4.5, 4.7 and 7 of the specification.                                    *)
(***************************************************************************)
EXTENDS Integers, Sequences, FiniteSets, TLC

(***************************************************************************)
(* Bounds of the model.                                                    *)
(***************************************************************************)
\* longest route a request body carries
MaxSteps == 2
\* longest list or tuple a handler returns
MaxOut == 2
\* longest body of a frame, in bytes
MaxBody == 2
\* most frames written to one stream
MaxFrames == 2
\* ASYA_CHUNK_SIZE: the most bytes one sock.recv is asked for
ChunkSize == 2

(***************************************************************************)
(* Python / JSON values.  Every value is a record with a type tag t.       *)
(***************************************************************************)
PyNone == [t |-> "None"]
PyInt(n) == [t |-> "int", i |-> n]
PyBool(b) == [t |-> "bool", i |-> IF b THEN 1 ELSE 0]
PyFloat == [t |-> "float"]
PyStr(s) == [t |-> "str", s |-> s]
PyList(xs) == [t |-> "list", items |-> xs]
PyTuple(xs) == [t |-> "tuple", items |-> xs]
PyDict(f) == [t |-> "dict", d |-> f]
\* a Python object json.dumps cannot encode (a set)
PySet == [t |-> "set"]

\* results of operations that may raise
Ok(v) == [ok |-> TRUE, val |-> v]
Exc(type, text, args) == [type |-> type, text |-> text, args |-> args]
Raise(type, text) == [ok |-> FALSE, exc |-> Exc(type, text, <<>>)]
RaiseWith(type, text, args) == [ok |-> FALSE, exc |-> Exc(type, text, args)]

\* the step names of the model; routes are prefixes of AllSteps
AllSteps == <<PyStr("a"), PyStr("b"), PyStr("c"), PyStr("d")>>

\* Python's substring test `needle in s` on the strings of the model
StrContains(needle, s) ==
    \/ s = needle
    \/ s = "payload route" /\ needle \in {"payload", "route"}
    \/ s = "CUDA out of memory: Tried to allocate" /\ needle = "CUDA out of memory"

\* Python's ==: bool is a subclass of int, everything else is structural
PyEq(a, b) ==
    IF a.t \in {"int", "bool"} /\ b.t \in {"int", "bool"}
    THEN a.i = b.i
    ELSE a = b

\* Python's `key in x` for a string key
PyIn(key, x) ==
    CASE x.t = "dict" -> Ok(key \in DOMAIN x.d)
      [] x.t \in {"list", "tuple"} ->
            Ok(\E i \in 1..Len(x.items) : x.items[i] = PyStr(key))
      [] x.t = "str" -> Ok(StrContains(key, x.s))
      [] OTHER -> Raise("TypeError", "argument of type is not iterable")

\* Python's x[key] for a string key
PyGetItem(x, key) ==
    CASE x.t = "dict" ->
            IF key \in DOMAIN x.d THEN Ok(x.d[key]) ELSE Raise("KeyError", key)
      [] x.t \in {"list", "tuple", "str"} ->
            Raise("TypeError", "indices must be integers")
      [] OTHER -> Raise("TypeError", "object is not subscriptable")

(***************************************************************************)
(* Request bodies: the bytes of one frame.  A body is either not UTF-8,    *)
(* not JSON, empty, or the JSON text of a value.                           *)
(***************************************************************************)
BadUtf8 == [enc |-> "badutf8"]
BadJson == [enc |-> "badjson"]
EmptyBody == [enc |-> "empty"]
JsonBody(v) == [enc |-> "json", val |-> v]

\* _parse_msg_json: data.decode("utf-8") then json.loads
ParseMsgJson(data) ==
    CASE data.enc = "badutf8" -> Raise("UnicodeDecodeError", "invalid start byte")
      [] data.enc = "badjson" -> Raise("JSONDecodeError", "Expecting property name")
      [] data.enc = "empty" -> Raise("JSONDecodeError", "Expecting value")
      [] OTHER -> Ok(data.val)

\* mutant of ValidatedMessage: the whole message is returned as the payload
ValidatedMessageNested(msg) ==
    PyDict(("payload" :> msg) @@ ("route" :> msg.d["route"]))

\* lines 184-187: the dict validation returns, made of payload and route only
ValidatedMessage(msg) ==
    PyDict(("payload" :> msg.d["payload"]) @@ ("route" :> msg.d["route"]))

\* _validate_message_syntax; expected = PyNone means no expected step was given
ValidateMessageSyntax(msg, expected) ==
    LET inP == PyIn("payload", msg)
        inR == PyIn("route", msg)
        r == PyGetItem(msg, "route")
    IN
    IF ~inP.ok THEN inP
    ELSE IF ~inP.val
    THEN Raise("ValueError", "Missing required field 'payload' in message")
    ELSE IF ~inR.ok THEN inR
    ELSE IF ~inR.val
    THEN Raise("ValueError", "Missing required field 'route' in message")
    ELSE IF ~r.ok THEN r
    ELSE IF r.val.t # "dict"
    THEN Raise("ValueError", "Field 'route' must be a dict")
    ELSE IF "steps" \notin DOMAIN r.val.d
    THEN Raise("ValueError", "Missing required field 'steps' in route")
    ELSE IF r.val.d["steps"].t # "list"
    THEN Raise("ValueError", "Field 'route.steps' must be a list")
    ELSE IF "current" \notin DOMAIN r.val.d
    THEN Raise("ValueError", "Missing required field 'current' in route")
    ELSE IF r.val.d["current"].t \notin {"int", "bool"}
    THEN Raise("ValueError", "Field 'route.current' must be an integer")
    ELSE
        LET idx == r.val.d["current"].i
            steps == r.val.d["steps"].items
        IN
        IF idx < 0 \/ idx >= Len(steps)
        THEN Raise("ValueError", "Invalid route.current: out of bounds")
        ELSE IF expected # PyNone /\ ~PyEq(steps[idx + 1], expected)
        THEN RaiseWith("ValueError", "Route mismatch", <<expected, steps[idx + 1]>>)
        ELSE Ok(ValidatedMessage(msg))

\* _get_current_step: msg["route"]["steps"][msg["route"]["current"]]
PyIndex(xs, idx) ==
    IF xs.t \in {"list", "tuple"} /\ idx.t \in {"int", "bool"}
    THEN IF idx.i >= 0 /\ idx.i < Len(xs.items) THEN Ok(xs.items[idx.i + 1])
         ELSE IF idx.i < 0 /\ -idx.i <= Len(xs.items)
              THEN Ok(xs.items[Len(xs.items) + idx.i + 1])
              ELSE Raise("IndexError", "list index out of range")
    ELSE Raise("TypeError", "indices must be integers")

GetCurrentStep(msg) ==
    LET r == PyGetItem(msg, "route")
        s == PyGetItem(r.val, "steps")
        c == PyGetItem(r.val, "current")
    IN
    IF ~r.ok THEN r
    ELSE IF ~s.ok THEN s
    ELSE IF ~c.ok THEN c
    ELSE PyIndex(s.val, c.val)

\* mutant of ExcMessage: the details carry an empty message
ExcMessageEmpty(exc) == [t |-> "str", s |-> "", args |-> <<>>]

\* str(exc) of an exception, as the string the error details carry
ExcMessage(exc) == [t |-> "str", s |-> exc.text, args |-> exc.args]

\* mutant of ErrorResponse: the error element is built but an empty list returned
ErrorResponseEmpty(code, exc) == <<>>

\* _error_response(code, exc): the one-element error list
ErrorResponse(code, exc) ==
    << PyDict(("error" :> PyStr(code)) @@
              ("details" :> PyDict(("message" :> ExcMessage(exc)) @@
                                   ("type" :> PyStr(exc.type)) @@
                                   ("traceback" :> PyStr("traceback"))))) >>

(***************************************************************************)
(* The user function.  A handler behaviour either raises, or returns a     *)
(* value after (in message mode) possibly advancing msg["route"]["current"]*)
(* by one on the very object it was passed.  The returned value is a single item, *)
(* a list or a tuple of items; an item is a literal value or "self", the   *)
(* argument object itself.                                                 *)
(***************************************************************************)
Self == [k |-> "self", v |-> PyNone]
Lit(v) == [k |-> "lit", v |-> v]
HRaise(e) == [act |-> "raise", exc |-> e, mut |-> "none", shape |-> "single", items |-> <<>>]
HReturn(mut, shape, items) ==
    [act |-> "return", exc |-> Exc("", "", <<>>), mut |-> mut, shape |-> shape, items |-> items]

\* a handler that looks at the keys of its argument: it raises ValueError when
\* a dict argument has a key other than payload and route, and returns its
\* argument otherwise
HStrict ==
    [act |-> "strict", exc |-> Exc("ValueError", "unexpected key", <<>>), mut |-> "none",
     shape |-> "single", items |-> <<Self>>]

\* msg["route"]["current"] = k, done in place
SetCurrent(msg, k) ==
    PyDict([key \in DOMAIN msg.d |->
        IF key = "route"
        THEN PyDict([rk \in DOMAIN msg.d["route"].d \cup {"current"} |->
                IF rk = "current" THEN PyInt(k) ELSE msg.d["route"].d[rk]])
        ELSE msg.d[key]])

\* user_func(arg): what the call raises or returns, and the state in which it
\* leaves the message object msg (arg is msg itself in message mode)
HandlerRun(h, mode, msg, arg) ==
    LET canMut == /\ mode = "message"
                  /\ msg.t = "dict"
                  /\ "route" \in DOMAIN msg.d
                  /\ msg.d["route"].t = "dict"
                  /\ "current" \in DOMAIN msg.d["route"].d
                  /\ msg.d["route"].d["current"].t \in {"int", "bool"}
        cur == msg.d["route"].d["current"]
        after == IF h.mut = "none" THEN msg ELSE SetCurrent(msg, cur.i + 1)
        argAfter == IF mode = "message" THEN after ELSE arg
        item(i) == IF h.items[i].k = "self" THEN argAfter ELSE h.items[i].v
        vals == [i \in 1..Len(h.items) |-> item(i)]
    IN
    IF h.act = "raise" THEN [ok |-> FALSE, exc |-> h.exc, msg |-> msg]
    ELSE IF h.act = "strict" /\ arg.t = "dict" /\ ~(DOMAIN arg.d \subseteq {"payload", "route"})
    THEN [ok |-> FALSE, exc |-> h.exc, msg |-> msg]
    ELSE IF h.mut # "none" /\ ~canMut
    THEN [ok |-> FALSE, exc |-> Exc("TypeError", "object is not subscriptable", <<>>), msg |-> msg]
    ELSE [ok |-> TRUE,
          val |-> CASE h.shape = "single" -> vals[1]
                    [] h.shape = "list" -> PyList(vals)
                    [] OTHER -> PyTuple(vals),
          msg |-> after]

\* mutant of Normalise: the elements of a list or tuple are taken last first
NormaliseReversed(out) ==
    IF out = PyNone THEN <<>>
    ELSE IF out.t \in {"list", "tuple"}
    THEN [i \in 1..Len(out.items) |-> out.items[Len(out.items) + 1 - i]]
    ELSE <<out>>

\* mutant of Normalise: only a list is unpacked, a tuple is taken as one value
NormaliseListOnly(out) ==
    IF out = PyNone THEN <<>>
    ELSE IF out.t = "list" THEN out.items
    ELSE <<out>>

\* mutant of Normalise: None is taken as one output value
NormaliseNoneAsValue(out) ==
    IF out.t \in {"list", "tuple"} THEN out.items
    ELSE <<out>>

\* lines 236-241 and 248-253: None, list/tuple, or a single value
Normalise(out) ==
    IF out = PyNone THEN <<>>
    ELSE IF out.t \in {"list", "tuple"} THEN out.items
    ELSE <<out>>

\* mutant of ValidateOutputs: only the first output is validated
ValidateOutputsFirstOnly(out_msgs, msg) ==
    LET expected == GetCurrentStep(msg)
        res == IF ~expected.ok THEN expected
               ELSE ValidateMessageSyntax(out_msgs[1], expected.val)
    IN
    IF out_msgs = <<>> \/ res.ok THEN Ok(out_msgs)
    ELSE IF expected.ok /\ res.exc.type = "ValueError"
    THEN RaiseWith("ValueError", "Invalid output message", <<0, Len(out_msgs), res.exc>>)
    ELSE [ok |-> FALSE, exc |-> res.exc]

\* lines 256-265: validate every output against the step msg points to
ValidateOutputs(out_msgs, msg) ==
    LET n == Len(out_msgs)
        expected == GetCurrentStep(msg)
        res(i) == IF ~expected.ok THEN expected
                  ELSE ValidateMessageSyntax(out_msgs[i], expected.val)
        bad == {i \in 1..n : ~res(i).ok}
        first == CHOOSE i \in bad : \A j \in bad : i <= j
    IN
    IF bad = {} THEN Ok(out_msgs)
    ELSE IF expected.ok /\ res(first).exc.type = "ValueError"
    THEN RaiseWith("ValueError", "Invalid output message", <<first - 1, n, res(first).exc>>)
    ELSE [ok |-> FALSE, exc |-> res(first).exc]

\* the outcome of _handle_request: a returned list, or an exception that
\* leaves the function (esc); called tells whether user_func was invoked, hres
\* whether it "raised" or "returned", and ret the value it returned
Returned(resp, called, hres, ret) ==
    [esc |-> FALSE, exc |-> Exc("", "", <<>>), resp |-> resp, called |-> called,
     hres |-> hres, ret |-> ret]
Escaped(exc) ==
    [esc |-> TRUE, exc |-> exc, resp |-> <<>>, called |-> FALSE,
     hres |-> "none", ret |-> PyNone]

\* mutant of WrapPayloads: the runtime advances the cursor of the route itself
WrapPayloadsAdvanced(out_payloads, route) ==
    [i \in 1..Len(out_payloads) |->
        PyDict(("payload" :> out_payloads[i]) @@
               ("route" :> IF route.t = "dict" /\ "current" \in DOMAIN route.d
                                /\ route.d["current"].t = "int"
                           THEN PyDict([rk \in DOMAIN route.d |->
                                    IF rk = "current" THEN PyInt(route.d[rk].i + 1)
                                    ELSE route.d[rk]])
                           ELSE route))]

\* mutant of WrapPayloads: the outputs carry the payload and no route
WrapPayloadsBare(out_payloads, route) ==
    [i \in 1..Len(out_payloads) |-> PyDict("payload" :> out_payloads[i])]

\* line 242: reattach the input route to every output payload
WrapPayloads(out_payloads, route) ==
    [i \in 1..Len(out_payloads) |->
        PyDict(("payload" :> out_payloads[i]) @@ ("route" :> route))]

\* mutant of ProcessingError: the exception is swallowed, no output returned
ProcessingErrorSwallowed(exc) == <<>>

\* lines 275-277: any exception of the processing stage
ProcessingError(exc) == ErrorResponse("processing_error", exc)

\* lines 231-277: call the user function and process its output
ProcessMessage(msg, mode, validation, h) ==
    LET arg == IF mode = "payload" THEN PyGetItem(msg, "payload") ELSE Ok(msg)
        run == HandlerRun(h, mode, msg, arg.val)
        outs == Normalise(run.val)
        route == PyGetItem(msg, "route")
        checked == ValidateOutputs(outs, run.msg)
    IN
    IF ~arg.ok THEN Returned(ProcessingError(arg.exc), FALSE, "none", PyNone)
    ELSE IF ~run.ok THEN Returned(ProcessingError(run.exc), TRUE, "raised", PyNone)
    ELSE IF mode = "payload"
    THEN IF outs = <<>> THEN Returned(<<>>, TRUE, "returned", run.val)
         ELSE IF ~route.ok
         THEN Returned(ProcessingError(route.exc), TRUE, "returned", run.val)
         ELSE Returned(WrapPayloads(outs, route.val), TRUE, "returned", run.val)
    ELSE IF validation /\ ~checked.ok
    THEN Returned(ProcessingError(checked.exc), TRUE, "returned", run.val)
    ELSE Returned(outs, TRUE, "returned", run.val)

\* the exception classes the parsing stage catches (line 228); JSONDecodeError
\* and UnicodeDecodeError are subclasses of ValueError
ParsingErrors == {"JSONDecodeError", "UnicodeDecodeError", "KeyError", "ValueError"}

\* mutant of HandleRequest: the bytes read before the stream was closed are
\* handled like a whole request
HandleRequestOfPartial(whole, data, mode, validation, h) ==
    LET parsed == ParseMsgJson(data)
        msg == IF parsed.ok /\ validation
               THEN ValidateMessageSyntax(parsed.val, PyNone)
               ELSE parsed
    IN
    IF ~msg.ok
    THEN IF msg.exc.type \in ParsingErrors
         THEN Returned(ErrorResponse("msg_parsing_error", msg.exc), FALSE, "none", PyNone)
         ELSE Escaped(msg.exc)
    ELSE ProcessMessage(msg.val, mode, validation, h)

\* _handle_request(conn, user_func), given whether the whole frame arrived
HandleRequest(whole, data, mode, validation, h) ==
    LET parsed == ParseMsgJson(data)
        msg == IF parsed.ok /\ validation
               THEN ValidateMessageSyntax(parsed.val, PyNone)
               ELSE parsed
    IN
    IF ~whole
    THEN Returned(ErrorResponse("connection_error",
                    Exc("ConnectionError", "Connection closed while reading", <<>>)),
                  FALSE, "none", PyNone)
    ELSE IF ~msg.ok
    THEN IF msg.exc.type \in ParsingErrors
         THEN Returned(ErrorResponse("msg_parsing_error", msg.exc), FALSE, "none", PyNone)
         ELSE Escaped(msg.exc)
    ELSE ProcessMessage(msg.val, mode, validation, h)

\* whether json.dumps can encode a value
RECURSIVE JsonEncodable(_)
JsonEncodable(v) ==
    CASE v.t = "dict" -> \A key \in DOMAIN v.d : JsonEncodable(v.d[key])
      [] v.t \in {"list", "tuple"} -> \A i \in 1..Len(v.items) : JsonEncodable(v.items[i])
      [] v.t = "set" -> FALSE
      [] OTHER -> TRUE

\* the JSON value a peer decodes from json.dumps(v): tuples arrive as lists
RECURSIVE JsonOf(_)
JsonOf(v) ==
    CASE v.t = "dict" -> PyDict([key \in DOMAIN v.d |-> JsonOf(v.d[key])])
      [] v.t \in {"list", "tuple"} -> PyList([i \in 1..Len(v.items) |-> JsonOf(v.items[i])])
      [] OTHER -> v

(***************************************************************************)
(* The inputs of the model: request bodies and handler behaviours.         *)
(***************************************************************************)
Route(steps, cur) == PyDict(("steps" :> PyList(steps)) @@ ("current" :> cur))
Envelope(p, steps, cur) == PyDict(("payload" :> p) @@ ("route" :> Route(steps, cur)))
WithJobId(env) == PyDict(env.d @@ ("job_id" :> PyStr("j1")))

\* envelopes that satisfy the schema: a route of 1..MaxSteps steps, cursor inside
GoodEnvelopes ==
    UNION {{Envelope(PyStr("p1"), SubSeq(AllSteps, 1, n), PyInt(c)) : c \in 0..(n - 1)} :
              n \in 1..MaxSteps}

\* values that are no envelope, or whose route breaks the schema
OddValues ==
    { PyInt(5), PyStr("x"), PyStr("payload route"), PyNone, PyList(<<>>),
      PyDict(<<>>),
      PyDict("payload" :> PyStr("p1")),
      PyDict(("payload" :> PyStr("p1")) @@ ("route" :> PyStr("x"))),
      PyDict(("payload" :> PyStr("p1")) @@
             ("route" :> PyDict(("steps" :> PyStr("a")) @@ ("current" :> PyInt(0))))),
      PyDict(("payload" :> PyStr("p1")) @@
             ("route" :> PyDict("steps" :> PyList(<<AllSteps[1]>>)))),
      Envelope(PyStr("p1"), <<AllSteps[1]>>, PyStr("0")),
      Envelope(PyStr("p1"), <<AllSteps[1]>>, PyInt(-1)),
      Envelope(PyStr("p1"), <<AllSteps[1]>>, PyInt(1)),
      Envelope(PyStr("p1"), <<>>, PyInt(0)),
      Envelope(PyStr("p1"), <<AllSteps[1], AllSteps[2]>>, PyBool(TRUE)),
      Envelope(PyStr("p1"), <<PyInt(1), AllSteps[2]>>, PyInt(0)),
      Envelope(PyStr("p1"), <<PyNone, AllSteps[2]>>, PyInt(0)) }

Bodies ==
    {BadUtf8, BadJson, EmptyBody}
    \cup {JsonBody(v) : v \in OddValues}
    \cup {JsonBody(v) : v \in GoodEnvelopes}
    \cup {JsonBody(WithJobId(Envelope(PyStr("p1"), SubSeq(AllSteps, 1, MaxSteps), PyInt(0)))),
          JsonBody(Envelope(PyNone, <<AllSteps[1]>>, PyInt(0)))}

\* what a handler raises
HandlerExceptions ==
    { Exc("ValueError", "bad", <<>>),
      Exc("MemoryError", "Simulated out of memory condition", <<>>),
      Exc("RuntimeError", "CUDA out of memory: Tried to allocate", <<>>) }

\* the items a handler returns: payloads in payload mode, envelopes (or
\* things that are no envelope) in message mode
PayloadItems == {Self, Lit(PyStr("p2")), Lit(PyNone), Lit(PySet)}
MessageItems ==
    { Self,
      Lit(Envelope(PyStr("p2"), SubSeq(AllSteps, 1, MaxSteps + 1), PyInt(0))),
      Lit(Envelope(PyStr("p2"), SubSeq(AllSteps, 1, MaxSteps + 1), PyInt(1))),
      Lit(PyDict("payload" :> PyStr("p2"))),
      Lit(PyInt(5)) }

ItemSeqs(items) == UNION {[1..n -> items] : n \in 0..MaxOut}

Returns(muts, items) ==
    {HReturn(m, "single", <<x>>) : m \in muts, x \in items}
    \cup {HReturn(m, "list", xs) : m \in muts, xs \in ItemSeqs(items)}
    \cup {HReturn("none", "tuple", xs) : xs \in ItemSeqs(items)}

\* a handler that rewrites the route: whatever it is given, it returns an
\* envelope whose route holds the first step only
HTrim == HReturn("none", "single", <<Lit(Envelope(PyStr("p2"), <<AllSteps[1]>>, PyInt(0)))>>)

\* a handler that inserts a step before the cursor: whatever it is given, it
\* returns an envelope whose route is the second step followed by the first,
\* with the cursor on the first
HInsert ==
    HReturn("none", "single", <<Lit(Envelope(PyStr("p2"), <<AllSteps[2], AllSteps[1]>>, PyInt(1)))>>)

\* a handler that returns an envelope with a top-level error key next to its
\* payload and route
HForge ==
    HReturn("none", "single",
            <<Lit(PyDict(Envelope(PyStr("p2"), <<AllSteps[1]>>, PyInt(0)).d
                         @@ ("error" :> PyStr("processing_error"))))>>)

PayloadHandlers ==
    {HRaise(e) : e \in HandlerExceptions} \cup Returns({"none"}, PayloadItems)
MessageHandlers ==
    {HRaise(e) : e \in HandlerExceptions} \cup {HStrict, HTrim, HInsert, HForge}
    \cup Returns({"none", "advance"}, MessageItems)
Handlers(mode) == IF mode = "payload" THEN PayloadHandlers ELSE MessageHandlers

(***************************************************************************)
(* The sidecar's router (specification sections 4.5, 4.7 and 7).           *)
(***************************************************************************)
HappyEnd == "happy-end"
ErrorEnd == "error-end"

\* an envelope the router can advance: the schema of section 6
Routable(v) ==
    /\ v.t = "dict"
    /\ "route" \in DOMAIN v.d
    /\ v.d["route"].t = "dict"
    /\ {"steps", "current"} \subseteq DOMAIN v.d["route"].d
    /\ v.d["route"].d["steps"].t = "list"
    /\ \A i \in 1..Len(v.d["route"].d["steps"].items) :
          v.d["route"].d["steps"].items[i].t = "str"
    /\ v.d["route"].d["current"].t = "int"
    /\ v.d["route"].d["current"].i >= 0
    /\ v.d["route"].d["current"].i < Len(v.d["route"].d["steps"].items)

CurrentOf(v) == v.d["route"].d["current"].i
StepsOf(v) == v.d["route"].d["steps"].items

\* mutant of Advance: an exhausted route is sent to its last step's queue again
AdvancePastEnd(v) ==
    LET new == CurrentOf(v) + 1
    IN [queue |-> IF new = Len(StepsOf(v)) THEN StepsOf(v)[new].s ELSE StepsOf(v)[new + 1].s,
        msg |-> JsonBody(SetCurrent(v, new))]

\* section 4.5, third row: advance current by one; the next step's queue, or
\* the happy-terminal queue when the route is exhausted
Advance(v) ==
    LET new == CurrentOf(v) + 1
    IN [queue |-> IF new = Len(StepsOf(v)) THEN HappyEnd ELSE StepsOf(v)[new + 1].s,
        msg |-> JsonBody(SetCurrent(v, new))]

\* whether a response array is an error response: its first element has "error"
IsErrorResponse(items) ==
    /\ Len(items) >= 1
    /\ items[1].t = "dict"
    /\ "error" \in DOMAIN items[1].d

\* section 4.7: handler-error signatures are mapped to the OOM kinds
ErrorKind(elem) ==
    LET kind == elem.d["error"].s
        det == IF "details" \in DOMAIN elem.d THEN elem.d["details"].d ELSE <<>>
    IN
    IF kind = "processing_error" /\ "type" \in DOMAIN det /\ det["type"].s = "MemoryError"
    THEN "oom_error"
    ELSE IF /\ kind = "processing_error"
            /\ "message" \in DOMAIN det
            /\ StrContains("CUDA out of memory", det["message"].s)
    THEN "cuda_oom_error"
    ELSE kind

\* section 7: the severity of each error kind
Severity(kind) ==
    CASE kind \in {"msg_parsing_error", "processing_error"} -> "fatal"
      [] kind = "connection_error" -> "transient"
      [] OTHER -> "recoverable"

\* section 7: fatal errors go to the error-terminal queue, transient ones are
\* requeued, recoverable ones are requeued until the retry policy is exhausted
Dispositions(kind) ==
    CASE Severity(kind) = "fatal" -> {"terminal"}
      [] Severity(kind) = "transient" -> {"requeue"}
      [] OTHER -> {"requeue", "terminal"}

\* section 3: the error envelope carrying the original message
ErrorEnvelope(kind, details, original) ==
    JsonBody(PyDict(("error" :> PyStr(kind)) @@
                    ("details" :> details) @@
                    ("original_message" :> [t |-> "raw", body |-> original])))

ErrorPlan(kind, details, original) ==
    << [queue |-> ErrorEnd, msg |-> ErrorEnvelope(kind, details, original)] >>

\* section 4.5: what to publish for a response array, given the inbound message
RoutePlan(original, items) ==
    IF items = <<>> THEN << [queue |-> HappyEnd, msg |-> original] >>
    ELSE IF IsErrorResponse(items)
    THEN ErrorPlan(ErrorKind(items[1]),
                   IF "details" \in DOMAIN items[1].d THEN items[1].d["details"] ELSE PyNone,
                   original)
    ELSE [i \in 1..Len(items) |-> Advance(items[i])]

\* a success response the router cannot advance: some element has no usable route
Unroutable(items) ==
    /\ items # <<>>
    /\ ~IsErrorResponse(items)
    /\ \E i \in 1..Len(items) : ~Routable(items[i])

\* what the sidecar may do with a response: publish the plan, or requeue
ResponseDispositions(items) ==
    IF Unroutable(items) THEN {"requeue", "terminal"}
    ELSE IF IsErrorResponse(items) THEN Dispositions(ErrorKind(items[1]))
    ELSE {"publish"}

ResponsePlan(original, items) ==
    IF Unroutable(items) THEN ErrorPlan("processing_error", PyNone, original)
    ELSE RoutePlan(original, items)

(***************************************************************************)
(* The frame codec (_send_msg, _recv_exact and the read of _handle_request).*)
(* A stream is a sequence of bytes.                                        *)
(***************************************************************************)
\* the bytes a body is made of: '{' and '}'
BodyBytes == {123, 125}

\* the bodies the writer sends
FrameBodies == UNION {[1..n -> BodyBytes] : n \in 0..MaxBody}

\* struct.pack(">I", n) and struct.unpack(">I", bs)[0]
PackU32(n) ==
    << (n \div 16777216) % 256, (n \div 65536) % 256, (n \div 256) % 256, n % 256 >>
UnpackU32(bs) == bs[1] * 16777216 + bs[2] * 65536 + bs[3] * 256 + bs[4]

\* mutant of FrameOf: the length is written little-endian
FrameOfLittleEndian(data) ==
    LET n == Len(data)
    IN << n % 256, (n \div 256) % 256, (n \div 65536) % 256, (n \div 16777216) % 256 >>
       \o data

\* _send_msg: the bytes sendall is given, length prefix then data
FrameOf(data) == PackU32(Len(data)) \o data

\* the bytes of consecutive frames
RECURSIVE FramesOf(_)
FramesOf(bodies) ==
    IF bodies = <<>> THEN <<>>
    ELSE FrameOf(Head(bodies)) \o FramesOf(Tail(bodies))

\* the request body a byte string is: what decode("utf-8") and json.loads make
\* of it
BodyOfBytes(bs) ==
    IF bs = <<>> THEN EmptyBody
    ELSE IF bs = <<123, 125>> THEN JsonBody(PyDict(<<>>))
    ELSE BadJson

\* the smaller of two numbers
Min(a, b) == IF a <= b THEN a ELSE b

\* mutant of RecvSize: every recv asks for a whole chunk
RecvSizeWholeChunk(remaining) == ChunkSize

\* line 106: the number of bytes one sock.recv is asked for
RecvSize(remaining) == Min(remaining, ChunkSize)

\* the handler of the framing runs: it returns its argument
Echo == HReturn("none", "single", <<Self>>)

(***************************************************************************)
(* The handler loader (_load_function, lines 47-98).  A handler name is a  *)
(* sequence of characters; the host offers one module, m, with a function  *)
(* f and a value v that is not callable.                                   *)
(***************************************************************************)
MaxName == 3

Letters == {"m", "f", "v"}
Digits == {"1"}
NameChars == Letters \cup Digits \cup {".", "/"}
HandlerNames == UNION {[1..n -> NameChars] : n \in 0..MaxName}

\* what importlib.import_module finds: module path |-> attribute |-> callable
HostModules == (<<"m">> :> ((<<"f">> :> TRUE) @@ (<<"v">> :> FALSE)))

\* [a-zA-Z_][a-zA-Z0-9_]*
IsIdentifier(seg) ==
    /\ Len(seg) >= 1
    /\ seg[1] \in Letters
    /\ \A i \in 1..Len(seg) : seg[i] \in Letters \cup Digits

\* the position of the last dot of a name, 0 when it has none
LastDot(name) ==
    IF \E i \in 1..Len(name) : name[i] = "."
    THEN CHOOSE i \in 1..Len(name) :
            name[i] = "." /\ \A j \in (i + 1)..Len(name) : name[j] # "."
    ELSE 0

\* line 72: ASYA_HANDLER.rsplit(".", 1)
ModulePath(name) == SubSeq(name, 1, LastDot(name) - 1)
FuncName(name) == SubSeq(name, LastDot(name) + 1, Len(name))

\* lines 62-63: ^[a-zA-Z_][a-zA-Z0-9_]*(\.[a-zA-Z_][a-zA-Z0-9_]*)+$, that is,
\* two or more identifiers joined by dots
RECURSIVE HandlerPattern(_)
HandlerPattern(name) ==
    /\ LastDot(name) > 0
    /\ IsIdentifier(FuncName(name))
    /\ \/ IsIdentifier(ModulePath(name))
       \/ HandlerPattern(ModulePath(name))

\* what _load_function does: returns the function, calls sys.exit(code), or
\* raises
Loaded(name) == [kind |-> "func", code |-> 0, name |-> name]
SysExit(code) == [kind |-> "exit", code |-> code, name |-> <<>>]
LoadRaises == [kind |-> "raise", code |-> 1, name |-> <<>>]

\* mutant of LoadFunction: the resolved attribute is not tested with callable()
LoadFunctionAnyAttribute(name, argType) ==
    IF argType \notin {"message", "payload"} THEN LoadRaises
    ELSE IF name = <<>> THEN SysExit(1)
    ELSE IF ~HandlerPattern(name) THEN SysExit(1)
    ELSE IF ModulePath(name) \notin DOMAIN HostModules THEN SysExit(1)
    ELSE IF FuncName(name) \notin DOMAIN HostModules[ModulePath(name)] THEN SysExit(1)
    ELSE Loaded(name)

\* _load_function(), for ASYA_HANDLER = name and ASYA_HANDLER_ARG_TYPE = argType
LoadFunction(name, argType) ==
    IF argType \notin {"message", "payload"} THEN LoadRaises
    ELSE IF name = <<>> THEN SysExit(1)
    ELSE IF ~HandlerPattern(name) THEN SysExit(1)
    ELSE IF LastDot(name) = 0 THEN SysExit(1)
    ELSE IF ModulePath(name) \notin DOMAIN HostModules THEN SysExit(1)
    ELSE IF FuncName(name) \notin DOMAIN HostModules[ModulePath(name)] THEN SysExit(1)
    ELSE IF ~HostModules[ModulePath(name)][FuncName(name)] THEN SysExit(1)
    ELSE Loaded(name)

(***************************************************************************)
(* State.                                                                  *)
(***************************************************************************)
VARIABLES
    cfg,        \* ASYA_HANDLER_ARG_TYPE and ASYA_ENABLE_VALIDATION, read once
    sc,         \* the sidecar: "idle", "waiting", "publishing", "done"
    inbound,    \* the body of the delivery the sidecar is working on
    complete,   \* whether the sidecar wrote the whole request frame
    conn,       \* the connection: "none", "pending", "accepted", "closed"
    peerClosed, \* the sidecar has closed its end of the connection
    handler,    \* the behaviour of user_func in the request being served
    result,     \* what _handle_request returned (or raised) for the connection
    send,       \* the runtime's write: "none", "sent", "broken_pipe", "not_sent"
    wire,       \* the response frames that reached the sidecar
    outcome,    \* how the sidecar classified the delivery
    plan,       \* the messages the router decided to publish
    pubs,       \* the messages published and confirmed by the broker
    pubFailed,  \* a publish of this delivery was not confirmed
    ack,        \* "none", "acked", "nacked"
    fr,         \* the stream and the reader of the frame codec
    boot,       \* the runtime process from its start to its exit
    eh          \* one run of a terminal handler as the runtime's handler

vars == <<cfg, sc, inbound, complete, conn, peerClosed, handler, result, send, wire,
          outcome, plan, pubs, pubFailed, ack, fr, boot, eh>>

NoHandler == HRaise(Exc("", "", <<>>))
NoResult == Returned(<<>>, FALSE, "none", PyNone)

\* the reader and the stream before anything was written
FrIdle ==
    [ written |-> <<>>,      \* the bodies of the frames written whole
      cut |-> <<>>,          \* the bytes of a frame the peer wrote only in part
      closed |-> FALSE,      \* the peer closed the stream
      stream |-> <<>>,       \* the bytes written and not yet received
      phase |-> "header",    \* "header", "body", "done" or "failed"
      remaining |-> 4,       \* _recv_exact: bytes still to read
      chunks |-> <<>>,       \* _recv_exact: the chunks read, joined
      consumed |-> 0,        \* bytes received from the stream
      data |-> <<>>,         \* the body _handle_request read
      res |-> NoResult ]     \* what _handle_request returned

\* the runtime process before it is started
BootOff ==
    [ pc |-> "off",          \* "off", "starting", "loaded", "listening" (at
                             \* accept), "reading", "handling", "sending", "exited"
      name |-> <<>>,         \* ASYA_HANDLER
      argType |-> "payload", \* ASYA_HANDLER_ARG_TYPE
      code |-> 0,            \* the exit code of the process
      created |-> FALSE,     \* the listening socket has been created
      accepted |-> FALSE,    \* a connection has been accepted
      sock |-> FALSE,        \* the listening socket is open
      file |-> FALSE,        \* the socket file exists
      signalled |-> FALSE,   \* SIGINT or SIGTERM has been handled
      backlog |-> <<>>,      \* connections made and not yet accepted
      open |-> 0,            \* accepted connections not yet closed
      calls |-> 0,           \* invocations of user_func in progress
      reads |-> 0,           \* requests read on the current connection
      cur |-> [body |-> EmptyBody, whole |-> TRUE, peerGone |-> FALSE],
      h |-> Echo,            \* what user_func did in the call for it
      res |-> NoResult,      \* what _handle_request returned for it
      prev |-> "none",       \* what became of the write before the last one
      log |-> <<>> ]         \* the connection served last

\* no terminal handler is running
EhIdle ==
    [ pc |-> "idle",         \* "idle", "called", "extracted", "persisted",
                             \* "returned", "raised", "responded", "routed"
      kind |-> "happy",      \* "happy" or "error": which handler is ASYA_HANDLER
      s3 |-> FALSE,          \* object storage is configured
      gateway |-> FALSE,     \* the gateway is configured
      req |-> PyNone,        \* the message _handle_request parsed
      msg |-> PyNone,        \* the argument of the handler
      hres |-> "none",       \* the handler was not called, "returned" or "raised"
      extracted |-> FALSE,   \* the handler found a job_id
      job |-> PyNone,        \* what the handler extracted from msg
      puts |-> <<>>,         \* the put_object calls made
      posts |-> <<>>,        \* the POSTs made to the gateway
      s3_info |-> PyNone,    \* what persist_to_s3 returned
      ret |-> PyNone,        \* what the handler returned
      exc |-> Exc("", "", <<>>),  \* what the handler raised
      resp |-> <<>>,         \* the response of _handle_request
      body |-> EmptyBody,    \* the delivery taken from the terminal queue
      disposal |-> "none",   \* what the sidecar did with the delivery
      published |-> <<>> ]   \* what the sidecar published for it

Init ==
    /\ cfg \in [mode : {"payload", "message"}, validation : BOOLEAN]
    /\ sc = "idle"
    /\ inbound = EmptyBody
    /\ complete = TRUE
    /\ conn = "none"
    /\ peerClosed = FALSE
    /\ handler = NoHandler
    /\ result = NoResult
    /\ send = "none"
    /\ wire = <<>>
    /\ outcome = "none"
    /\ plan = <<>>
    /\ pubs = <<>>
    /\ pubFailed = FALSE
    /\ ack = "none"
    /\ fr = FrIdle
    /\ boot = BootOff
    /\ eh = EhIdle

(***************************************************************************)
(* The sidecar takes a delivery, opens a fresh connection and writes the   *)
(* request frame (section 4.7).  whole = FALSE: it gives up while writing  *)
(* and closes the socket, which is a socket failure of the delivery.       *)
(***************************************************************************)
StartDelivery(body, whole) ==
    /\ conn \in {"none", "closed"}
    /\ inbound' = body
    /\ complete' = whole
    /\ conn' = "pending"
    /\ peerClosed' = ~whole
    /\ handler' = NoHandler
    /\ result' = NoResult
    /\ send' = "none"
    /\ wire' = <<>>
    /\ plan' = <<>>
    /\ pubs' = <<>>
    /\ pubFailed' = FALSE
    /\ IF whole
       THEN sc' = "waiting" /\ outcome' = "none" /\ ack' = "none"
       ELSE sc' = "done" /\ outcome' = "connection_error" /\ ack' = "nacked"
    /\ UNCHANGED <<fr, boot, eh, cfg>>

\* a message arrives on the step's queue from outside the model
Deliver(body, whole) ==
    /\ sc = "idle"
    /\ StartDelivery(body, whole)

\* a message this sidecar published to a step queue is delivered to that step
Forward(i) ==
    /\ sc = "done"
    /\ ack = "acked"
    /\ i \in 1..Len(pubs)
    /\ pubs[i].queue \notin {HappyEnd, ErrorEnd}
    /\ StartDelivery(pubs[i].msg, TRUE)

\* the broker delivers a requeued message again
Redeliver ==
    /\ sc = "done"
    /\ ack = "nacked"
    /\ StartDelivery(inbound, TRUE)

\* the delivery is over and the sidecar waits for the next one
Finish ==
    /\ sc = "done"
    /\ conn \in {"none", "closed"}
    /\ sc' = "idle"
    /\ inbound' = EmptyBody
    /\ complete' = TRUE
    /\ conn' = "none"
    /\ peerClosed' = FALSE
    /\ handler' = NoHandler
    /\ result' = NoResult
    /\ send' = "none"
    /\ wire' = <<>>
    /\ outcome' = "none"
    /\ plan' = <<>>
    /\ pubs' = <<>>
    /\ pubFailed' = FALSE
    /\ ack' = "none"
    /\ UNCHANGED <<fr, boot, eh, cfg>>

(***************************************************************************)
(* The runtime's accept loop (handle_requests, lines 304-325).             *)
(***************************************************************************)
Accept ==
    /\ conn = "pending"
    /\ conn' = "accepted"
    /\ UNCHANGED <<fr, boot, eh, cfg, sc, inbound, complete, peerClosed, handler, result, send,
                   wire, outcome, plan, pubs, pubFailed, ack>>

\* lines 313-325: _handle_request, json.dumps, _send_msg, and conn.close()
ServeRequest(h) ==
    LET res == HandleRequest(complete, inbound, cfg.mode, cfg.validation, h)
        encodable == \A i \in 1..Len(res.resp) : JsonEncodable(res.resp[i])
    IN
    /\ conn = "accepted"
    /\ handler' = IF res.called THEN h ELSE NoHandler
    /\ result' = res
    /\ send' = IF res.esc \/ ~encodable THEN "not_sent"
               ELSE IF peerClosed THEN "broken_pipe"
               ELSE "sent"
    /\ wire' = IF send' = "sent" THEN <<JsonBody(JsonOf(PyList(res.resp)))>> ELSE <<>>
    /\ conn' = "closed"
    /\ UNCHANGED <<fr, boot, eh, cfg, sc, inbound, complete, peerClosed, outcome, plan, pubs,
                   pubFailed, ack>>

(***************************************************************************)
(* The sidecar's handling of the response (sections 4.5, 4.7, 7).          *)
(***************************************************************************)
\* take disposition d for a delivery classified as kind
Dispose(kind, d, toPublish) ==
    /\ outcome' = kind
    /\ pubs' = <<>>
    /\ pubFailed' = FALSE
    /\ IF d = "requeue"
       THEN plan' = <<>> /\ sc' = "done" /\ ack' = "nacked"
       ELSE plan' = toPublish /\ sc' = "publishing" /\ ack' = "none"

\* the response frame arrived: apply the router
ReceiveResponse(d) ==
    LET items == wire[1].val.items
    IN
    /\ sc = "waiting"
    /\ wire # <<>>
    /\ d \in ResponseDispositions(items)
    /\ Dispose(IF items = <<>> THEN "empty"
               ELSE IF IsErrorResponse(items) THEN ErrorKind(items[1])
               ELSE IF Unroutable(items) THEN "processing_error"
               ELSE "success",
               d, ResponsePlan(inbound, items))
    /\ peerClosed' = TRUE
    /\ UNCHANGED <<fr, boot, eh, cfg, inbound, complete, conn, handler, result, send, wire>>

\* the runtime closed the connection and no response frame arrived
ConnectionLost(d) ==
    /\ sc = "waiting"
    /\ conn = "closed"
    /\ wire = <<>>
    /\ d \in Dispositions("connection_error")
    /\ Dispose("connection_error", d, ErrorPlan("connection_error", PyNone, inbound))
    /\ peerClosed' = TRUE
    /\ UNCHANGED <<fr, boot, eh, cfg, inbound, complete, conn, handler, result, send, wire>>

\* mutant of Timeout: the timeout is recorded, but the socket stays open and
\* the sidecar keeps waiting for the response
TimeoutKeepsWaiting(d) ==
    /\ sc = "waiting"
    /\ outcome = "none"
    /\ d \in Dispositions("timeout_error")
    /\ outcome' = "timeout_error"
    /\ plan' = ErrorPlan("timeout_error", PyNone, inbound)
    /\ UNCHANGED <<fr, boot, eh, cfg, sc, inbound, complete, conn, peerClosed, handler, result,
                   send, wire, pubs, pubFailed, ack>>

\* the per-request timeout expires before the response is read: the sidecar
\* closes the socket and routes a timeout_error
Timeout(d) ==
    /\ sc = "waiting"
    /\ d \in Dispositions("timeout_error")
    /\ Dispose("timeout_error", d, ErrorPlan("timeout_error", PyNone, inbound))
    /\ peerClosed' = TRUE
    /\ UNCHANGED <<fr, boot, eh, cfg, inbound, complete, conn, handler, result, send, wire>>

\* the next message of the plan is published and confirmed by the broker
Publish ==
    /\ sc = "publishing"
    /\ Len(pubs) < Len(plan)
    /\ pubs' = Append(pubs, plan[Len(pubs) + 1])
    /\ UNCHANGED <<fr, boot, eh, cfg, sc, inbound, complete, conn, peerClosed, handler, result,
                   send, wire, outcome, plan, pubFailed, ack>>

\* a publish is not confirmed: the inbound message is negatively acknowledged
PublishFail ==
    /\ sc = "publishing"
    /\ Len(pubs) < Len(plan)
    /\ pubFailed' = TRUE
    /\ ack' = "nacked"
    /\ sc' = "done"
    /\ UNCHANGED <<fr, boot, eh, cfg, inbound, complete, conn, peerClosed, handler, result, send,
                   wire, outcome, plan, pubs>>

\* mutant of Ack: acknowledges without waiting for the outstanding confirms
AckEarly ==
    /\ sc = "publishing"
    /\ ack' = "acked"
    /\ sc' = "done"
    /\ UNCHANGED <<fr, boot, eh, cfg, inbound, complete, conn, peerClosed, handler, result, send,
                   wire, outcome, plan, pubs, pubFailed>>

\* every publish is confirmed: acknowledge the inbound message
Ack ==
    /\ sc = "publishing"
    /\ Len(pubs) = Len(plan)
    /\ ack' = "acked"
    /\ sc' = "done"
    /\ UNCHANGED <<fr, boot, eh, cfg, inbound, complete, conn, peerClosed, handler, result, send,
                   wire, outcome, plan, pubs, pubFailed>>

Next ==
    \/ \E body \in Bodies, whole \in BOOLEAN : Deliver(body, whole)
    \/ \E i \in 1..MaxOut : Forward(i)
    \/ Redeliver
    \/ Finish
    \/ Accept
    \/ \E h \in Handlers(cfg.mode) : ServeRequest(h)
    \/ \E d \in {"publish", "requeue", "terminal"} : ReceiveResponse(d)
    \/ \E d \in {"requeue", "terminal"} : ConnectionLost(d)
    \/ \E d \in {"requeue", "terminal"} : Timeout(d)
    \/ Publish
    \/ PublishFail
    \/ Ack

Spec == Init /\ [][Next]_vars

(***************************************************************************)
(* One connection at the level of bytes: the peer writes frames to the     *)
(* stream and _handle_request reads one request from it (lines 210-220),   *)
(* one sock.recv at a time.                                                *)
(***************************************************************************)
runtimeVars == <<cfg, sc, inbound, complete, conn, peerClosed, handler, result, send,
                 wire, outcome, plan, pubs, pubFailed, ack>>

\* the peer writes one whole frame (_send_msg, one sendall)
WriteFrame(body) ==
    /\ ~fr.closed
    /\ Len(fr.written) < MaxFrames
    /\ fr' = [fr EXCEPT !.written = Append(@, body),
                        !.stream = @ \o FrameOf(body)]
    /\ UNCHANGED <<runtimeVars, boot, eh>>

\* the peer writes only the first k bytes of a frame and closes the stream
WriteCut(body, k) ==
    /\ ~fr.closed
    /\ Len(fr.written) < MaxFrames
    /\ k \in 1..(Len(FrameOf(body)) - 1)
    /\ fr' = [fr EXCEPT !.cut = SubSeq(FrameOf(body), 1, k),
                        !.stream = @ \o SubSeq(FrameOf(body), 1, k),
                        !.closed = TRUE]
    /\ UNCHANGED <<runtimeVars, boot, eh>>

\* the peer closes the stream at a frame boundary
ClosePeer ==
    /\ ~fr.closed
    /\ fr' = [fr EXCEPT !.closed = TRUE]
    /\ UNCHANGED <<runtimeVars, boot, eh>>

\* one pass of the loop of _recv_exact in which sock.recv returns j bytes, and,
\* once the count is reached, the code that follows it in _handle_request: the
\* header is unpacked and the body read is started, or the body is handled
Recv(j) ==
    LET got == SubSeq(fr.stream, 1, j)
        rest == SubSeq(fr.stream, j + 1, Len(fr.stream))
        chunks == fr.chunks \o got
        more == fr.remaining - j > 0
        length == UnpackU32(chunks)
        finished == (fr.phase = "body" /\ ~more) \/ (fr.phase = "header" /\ ~more /\ length = 0)
        data == IF fr.phase = "body" THEN chunks ELSE <<>>
    IN
    /\ fr.phase \in {"header", "body"}
    /\ j \in 1..Min(RecvSize(fr.remaining), Len(fr.stream))
    /\ fr' = [fr EXCEPT
                !.stream = rest,
                !.consumed = @ + j,
                !.chunks = IF more THEN chunks ELSE <<>>,
                !.remaining = IF more THEN @ - j
                              ELSE IF fr.phase = "header" THEN length ELSE 0,
                !.phase = IF more THEN @ ELSE IF finished THEN "done" ELSE "body",
                !.data = IF finished THEN data ELSE @,
                !.res = IF finished
                        THEN HandleRequest(TRUE, BodyOfBytes(data), cfg.mode,
                                           cfg.validation, Echo)
                        ELSE @]
    /\ UNCHANGED <<runtimeVars, boot, eh>>

\* sock.recv returns b"": the stream is closed and nothing is left to read;
\* _recv_exact raises ConnectionError (line 108), caught at line 215
RecvEof ==
    /\ fr.phase \in {"header", "body"}
    /\ fr.stream = <<>>
    /\ fr.closed
    /\ fr' = [fr EXCEPT
                !.phase = "failed",
                !.res = HandleRequest(FALSE, BodyOfBytes(fr.chunks), cfg.mode,
                                      cfg.validation, Echo)]
    /\ UNCHANGED <<runtimeVars, boot, eh>>

FrameNext ==
    \/ \E body \in FrameBodies : WriteFrame(body)
    \/ \E body \in FrameBodies, k \in 1..(MaxBody + 3) : WriteCut(body, k)
    \/ ClosePeer
    \/ \E j \in 1..ChunkSize : Recv(j)
    \/ RecvEof

\* the byte-level runs hand the handler the whole message and do not validate
FrameInit == Init /\ cfg = [mode |-> "message", validation |-> FALSE]

FrameSpec == FrameInit /\ [][FrameNext]_vars

(***************************************************************************)
(* The start of the runtime process (handle_requests, lines 280-331): the  *)
(* handler is loaded, then the socket is set up, then connections are      *)
(* accepted until a signal closes the socket.                              *)
(***************************************************************************)
\* the process is started with ASYA_HANDLER = name (lines 37-38, 280-287)
StartProcess(name, argType) ==
    /\ boot.pc = "off"
    /\ boot' = [boot EXCEPT !.pc = "starting", !.name = name, !.argType = argType]
    /\ UNCHANGED <<runtimeVars, fr, eh>>

\* line 289: func = _load_function(); sys.exit and an exception that nothing
\* catches both end the process, the latter with exit code 1
LoadHandler ==
    LET r == LoadFunction(boot.name, boot.argType)
    IN
    /\ boot.pc = "starting"
    /\ boot' = IF r.kind = "func" THEN [boot EXCEPT !.pc = "loaded"]
               ELSE [boot EXCEPT !.pc = "exited", !.code = r.code]
    /\ UNCHANGED <<runtimeVars, fr, eh>>

\* lines 290-302: sock = _setup_socket(ASYA_SOCKET_PATH), socket() to
\* listen(), and the installation of _cleanup for SIGTERM and SIGINT
SetupSocket ==
    /\ boot.pc = "loaded"
    /\ boot' = [boot EXCEPT !.pc = "listening", !.created = TRUE, !.sock = TRUE,
                            !.file = TRUE]
    /\ UNCHANGED <<runtimeVars, fr, eh>>

\* lines 123-131: the unlink or the bind fails with OSError, which nothing
\* catches
SetupSocketFails ==
    /\ boot.pc = "loaded"
    /\ boot' = [boot EXCEPT !.pc = "exited", !.code = 1]
    /\ UNCHANGED <<runtimeVars, fr, eh>>

\* the process is inside the loop of lines 304-325
InLoop == boot.pc \in {"listening", "reading", "handling", "sending"}

\* what the handler of the process does in one call
BootHandlers ==
    { Echo, HRaise(Exc("ValueError", "bad", <<>>)),
      HReturn("none", "single", <<Lit(PySet)>>) }

\* the requests clients send; whole = FALSE: the client writes a part of the
\* frame and closes its end
BootRequests ==
    { [body |-> JsonBody(Envelope(PyStr("p1"), <<AllSteps[1]>>, PyInt(0))), whole |-> TRUE],
      [body |-> BadJson, whole |-> TRUE],
      [body |-> JsonBody(Envelope(PyStr("p1"), <<AllSteps[1]>>, PyInt(0))), whole |-> FALSE] }

\* a client connects to the socket file and writes its request
Connect(req) ==
    /\ InLoop
    /\ boot.sock /\ boot.file
    /\ boot.backlog = <<>>
    /\ boot' = [boot EXCEPT !.backlog = <<[body |-> req.body, whole |-> req.whole,
                                           peerGone |-> ~req.whole]>>]
    /\ UNCHANGED <<runtimeVars, fr, eh>>

\* the client closes its end of the connection the runtime is serving
ClientCloses ==
    /\ boot.pc \in {"reading", "handling", "sending"}
    /\ ~boot.cur.peerGone
    /\ boot' = [boot EXCEPT !.cur.peerGone = TRUE]
    /\ UNCHANGED <<runtimeVars, fr, eh>>

\* line 308: conn, _ = sock.accept()
AcceptConnection ==
    /\ boot.pc = "listening"
    /\ boot.sock
    /\ boot.backlog # <<>>
    /\ boot' = [boot EXCEPT !.pc = "reading", !.accepted = TRUE,
                            !.cur = Head(boot.backlog), !.backlog = <<>>,
                            !.open = @ + 1, !.reads = 0,
                            !.h = Echo, !.res = NoResult]
    /\ UNCHANGED <<runtimeVars, fr, eh>>

\* mutant of Cleanup: the OSError of unlinking a file that is gone is not
\* caught
CleanupUnlinkRaises(b) ==
    [sock |-> FALSE, file |-> FALSE, raised |-> ~b.file]

\* _cleanup, lines 292-299: sock.close(), which does nothing on a closed
\* socket, and os.unlink, whose OSError is passed over
Cleanup(b) ==
    [sock |-> FALSE, file |-> FALSE, raised |-> FALSE]

\* lines 292-302: SIGTERM or SIGINT arrives and _cleanup runs as its handler,
\* between two steps of the loop; the connections waiting in the backlog are
\* reset.  An exception raised by the handler would end the process.
Signal ==
    LET c == Cleanup(boot)
    IN
    /\ InLoop
    /\ boot' = IF c.raised
               THEN [boot EXCEPT !.pc = "exited", !.code = 1, !.sock = c.sock,
                                 !.file = c.file, !.signalled = TRUE,
                                 !.backlog = <<>>, !.open = 0, !.calls = 0]
               ELSE [boot EXCEPT !.sock = c.sock, !.file = c.file,
                                 !.signalled = TRUE, !.backlog = <<>>]
    /\ UNCHANGED <<runtimeVars, fr, eh>>

\* lines 308-311 and 330-331: accept fails with OSError on the closed socket,
\* the loop ends, _cleanup runs again and handle_requests returns
AcceptFails ==
    LET c == Cleanup(boot)
    IN
    /\ boot.pc = "listening"
    /\ ~boot.sock
    /\ boot' = [boot EXCEPT !.pc = "exited", !.code = IF c.raised THEN 1 ELSE 0,
                            !.sock = c.sock, !.file = c.file]
    /\ UNCHANGED <<runtimeVars, fr, eh>>

\* lines 210-229 of _handle_request: the whole frame arrived, and it parses and
\* passes the validation of the input, so that user_func is called with it
RequestAccepted(whole, data, validation) ==
    LET parsed == ParseMsgJson(data)
        msg == IF parsed.ok /\ validation
               THEN ValidateMessageSyntax(parsed.val, PyNone)
               ELSE parsed
    IN whole /\ msg.ok

\* lines 210-229 of _handle_request: the request is read and parsed; the
\* handler is called next, or the error response is ready
ReadRequest ==
    /\ boot.pc = "reading"
    /\ boot' = IF RequestAccepted(boot.cur.whole, boot.cur.body, cfg.validation)
               THEN [boot EXCEPT !.pc = "handling", !.reads = @ + 1, !.calls = @ + 1]
               ELSE [boot EXCEPT !.pc = "sending", !.reads = @ + 1,
                                 !.res = HandleRequest(boot.cur.whole, boot.cur.body,
                                                       boot.argType, cfg.validation,
                                                       Echo)]
    /\ UNCHANGED <<runtimeVars, fr, eh>>

\* lines 231-277: user_func returns or raises, and _handle_request returns
HandlerReturns(h) ==
    /\ boot.pc = "handling"
    /\ boot' = [boot EXCEPT !.pc = "sending", !.calls = @ - 1, !.h = h,
                            !.res = HandleRequest(boot.cur.whole, boot.cur.body,
                                                  boot.argType, cfg.validation, h)]
    /\ UNCHANGED <<runtimeVars, fr, eh>>

\* user_func calls sys.exit(code): SystemExit is no Exception, so it passes
\* lines 275 and 321, conn.close() and _cleanup run and the process exits
HandlerExits ==
    LET c == Cleanup(boot)
    IN
    /\ boot.pc = "handling"
    /\ boot' = [boot EXCEPT !.pc = "exited", !.code = 3, !.calls = @ - 1,
                            !.open = @ - 1, !.sock = c.sock, !.file = c.file,
                            !.backlog = <<>>]
    /\ UNCHANGED <<runtimeVars, fr, eh>>

\* lines 315-322: json.dumps and _send_msg; what becomes of the write
SendOutcome(res, peerGone) ==
    IF res.esc \/ ~(\A i \in 1..Len(res.resp) : JsonEncodable(res.resp[i]))
    THEN "not_sent"
    ELSE IF peerGone THEN "broken_pipe"
    ELSE "sent"

\* mutant of OpenAfterServe: the connection is closed only after a write that
\* succeeded
OpenAfterServeNoFinally(open, sendOutcome) ==
    IF sendOutcome = "sent" THEN open - 1 ELSE open

\* lines 324-325: finally conn.close(), whatever became of the write
OpenAfterServe(open, sendOutcome) == open - 1

\* mutant of PcAfterServe: BrokenPipeError is not caught and ends the loop
PcAfterServeBrokenPipeEnds(sendOutcome) ==
    IF sendOutcome = "broken_pipe" THEN "exited" ELSE "listening"

\* lines 318-322: BrokenPipeError and every other Exception are logged, and
\* the loop goes on with the next accept
PcAfterServe(sendOutcome) == "listening"

\* lines 315-325: the response is encoded and written, and the connection is
\* closed
SendResponse ==
    LET sendOutcome == SendOutcome(boot.res, boot.cur.peerGone)
    IN
    /\ boot.pc = "sending"
    /\ boot' = [boot EXCEPT !.pc = PcAfterServe(sendOutcome),
                            !.open = OpenAfterServe(boot.open, sendOutcome),
                            !.prev = IF boot.log = <<>> THEN "none"
                                     ELSE boot.log[1].send,
                            !.log = <<[body |-> boot.cur.body,
                                       whole |-> boot.cur.whole,
                                       h |-> boot.h,
                                       res |-> boot.res,
                                       send |-> sendOutcome,
                                       signalled |-> boot.signalled]>>]
    /\ UNCHANGED <<runtimeVars, fr, eh>>

\* what the runtime does by itself once it is in the loop
ServeStep ==
    \/ AcceptConnection
    \/ AcceptFails
    \/ ReadRequest
    \/ \E h \in BootHandlers : HandlerReturns(h)
    \/ SendResponse

BootNext ==
    \/ \E name \in HandlerNames, argType \in {"payload", "message", "other"} :
          StartProcess(name, argType)
    \/ LoadHandler
    \/ SetupSocket
    \/ SetupSocketFails
    \/ \E req \in BootRequests : Connect(req)
    \/ ClientCloses
    \/ Signal
    \/ HandlerExits
    \/ ServeStep

\* the defaults of lines 38 and 42 for the request handling, which these
\* runs never reach
BootInit == Init /\ cfg = [mode |-> "payload", validation |-> TRUE]

BootSpec == BootInit /\ [][BootNext]_vars

\* the process is started with a handler that loads
StartServing ==
    \E argType \in {"payload", "message"} : StartProcess(<<"m", ".", "f">>, argType)

ServeNext ==
    \/ StartServing
    \/ LoadHandler
    \/ SetupSocket
    \/ SetupSocketFails
    \/ \E req \in BootRequests : Connect(req)
    \/ ClientCloses
    \/ Signal
    \/ HandlerExits
    \/ ServeStep

\* the runtime is one thread that runs whenever it can, and a handler call in
\* flight returns
ServeSpec == BootInit /\ [][ServeNext]_vars /\ WF_vars(ServeStep)

(***************************************************************************)
(* Properties of the runtime's request handling.                           *)
(***************************************************************************)
\* the connection of the current delivery has been served and closed
Served == conn = "closed"

\* the request was answered with a list that is not an error response
SuccessResponse == Served /\ ~result.esc /\ ~IsErrorResponse(result.resp)

\* the response is exactly one error element of the given kind
OneError(resp, kind) ==
    /\ Len(resp) = 1
    /\ IsErrorResponse(resp)
    /\ resp[1].d["error"].s = kind

\* the envelope schema of the specification (sections 4.2 and 6)
SchemaValid(v) == v.t = "dict" /\ "payload" \in DOMAIN v.d /\ Routable(v)

\* the message object handed to user_func in message mode with validation on,
\* as the handler left it, and the outputs it returned
RequestMsg == ValidateMessageSyntax(inbound.val, PyNone).val
HandlerLeft == HandlerRun(handler, "message", RequestMsg, RequestMsg).msg
OutputFails(i) ==
    LET expected == GetCurrentStep(HandlerLeft)
        outs == Normalise(result.ret)
    IN ~expected.ok \/ ~ValidateMessageSyntax(outs[i], expected.val).ok

\* C1: in message mode with validation enabled, every envelope of a success
\* response points at the step the input envelope's cursor pointed at when the
\* request was received: output.route.steps[output.route.current] equals
\* input.route.steps[input.route.current], whatever the handler did to the
\* envelope object it was passed.
C1_OutputsKeepReceivedStep ==
    (cfg.mode = "message" /\ cfg.validation /\ SuccessResponse /\ SchemaValid(inbound.val))
        => \A i \in 1..Len(result.resp) :
              GetCurrentStep(result.resp[i]) = GetCurrentStep(inbound.val)

\* C2: for every accepted connection on which a complete request frame was
\* read, the runtime writes one response frame before it closes the connection
\* (a write that fails only because the peer is gone counts as written).
C2_AlwaysWritesResponse ==
    (Served /\ complete) => send \in {"sent", "broken_pipe"}

\* C3: with validation enabled, every fully read request body that is not a
\* valid envelope is answered with exactly one msg_parsing_error element and the
\* handler is not invoked.
C3_InvalidBodyIsParsingError ==
    (cfg.validation /\ Served /\ complete
        /\ ~(inbound.enc = "json" /\ SchemaValid(inbound.val)))
        => /\ ~result.esc
           /\ OneError(result.resp, "msg_parsing_error")
           /\ ~result.called

\* C4: output validation is all-or-nothing: in message mode with validation
\* enabled, if any element the handler returned fails validation, the response
\* is exactly one processing_error element and carries none of the outputs.
C4_AllOrNothing ==
    (/\ cfg.mode = "message" /\ cfg.validation /\ Served
     /\ result.hres = "returned"
     /\ \E i \in 1..Len(Normalise(result.ret)) : OutputFails(i))
        => /\ ~result.esc
           /\ OneError(result.resp, "processing_error")

\* C4 witness: a fan-out whose first element is valid and whose second is not
\* was answered with the single error
C4_Witness ==
    /\ cfg.mode = "message" /\ cfg.validation /\ Served
    /\ result.hres = "returned"
    /\ Len(Normalise(result.ret)) >= 2
    /\ ~OutputFails(1)
    /\ OutputFails(2)
    /\ OneError(result.resp, "processing_error")

(***************************************************************************)
(* Properties of the router and of the sidecar's acknowledgements.         *)
(***************************************************************************)
\* how many outputs a returned value stands for
OutputCount(v) ==
    IF v = PyNone THEN 0
    ELSE IF v.t \in {"list", "tuple"} THEN Len(v.items)
    ELSE 1

\* the sidecar read the response frame of this delivery and routed it
ResponseRouted ==
    /\ sc \in {"publishing", "done"}
    /\ wire # <<>>
    /\ outcome \notin {"none", "timeout_error", "connection_error"}

\* the response array the sidecar read
ResponseItems == wire[1].val.items

\* the handler's outputs failed the runtime's output validation
ValidationFailed ==
    /\ cfg.mode = "message" /\ cfg.validation
    /\ result.hres = "returned"
    /\ \E i \in 1..Len(Normalise(result.ret)) : OutputFails(i)

\* an error envelope on the error-terminal queue that wraps the inbound message
WrapsInbound(p) ==
    /\ p.queue = ErrorEnd
    /\ p.msg.enc = "json"
    /\ p.msg.val.d["original_message"] = [t |-> "raw", body |-> inbound]

\* C5 (as stated): for every number N of outputs the handler returns, the
\* router publishes exactly N envelopes; on a validation failure it publishes
\* no success envelope and exactly one error envelope.
C5_PublishesExactlyN ==
    /\ (ack = "acked" /\ ResponseRouted /\ result.hres = "returned"
            /\ outcome \in {"success", "empty"})
        => Len(pubs) = OutputCount(result.ret)
    /\ (ack = "acked" /\ ResponseRouted /\ ValidationFailed)
        => (Len(pubs) = 1 /\ WrapsInbound(pubs[1]))

\* C5 (amended): for N >= 1 outputs routed as a success the router publishes
\* exactly N envelopes; for N = 0 it publishes exactly one envelope, to the
\* happy-terminal queue; on a validation failure it publishes no success
\* envelope and exactly one error envelope.
C5_FanOutPreserved ==
    /\ (ack = "acked" /\ ResponseRouted /\ result.hres = "returned"
            /\ outcome = "success")
        => (OutputCount(result.ret) >= 1 /\ Len(pubs) = OutputCount(result.ret))
    /\ (ack = "acked" /\ ResponseRouted /\ result.hres = "returned"
            /\ outcome = "empty")
        => (OutputCount(result.ret) = 0 /\ Len(pubs) = 1 /\ pubs[1].queue = HappyEnd)
    /\ (ack = "acked" /\ ResponseRouted /\ ValidationFailed)
        => (Len(pubs) = 1 /\ WrapsInbound(pubs[1]))

\* C5 witness: a fan-out of at least two outputs was published and acknowledged
C5_Witness ==
    /\ ack = "acked" /\ ResponseRouted /\ result.hres = "returned"
    /\ outcome = "success"
    /\ OutputCount(result.ret) >= 2
    /\ Len(pubs) = OutputCount(result.ret)

\* C6: if the handler returns nothing (None or an empty list), the router
\* publishes exactly one envelope, to the happy-terminal queue and to no step
\* queue, and that envelope is the original inbound envelope unchanged.
C6_EmptyCollapse ==
    (ResponseRouted /\ result.hres = "returned" /\ OutputCount(result.ret) = 0)
        => /\ outcome = "empty"
           /\ plan = << [queue |-> HappyEnd, msg |-> inbound] >>
           /\ \A i \in 1..Len(pubs) : pubs[i] = [queue |-> HappyEnd, msg |-> inbound]
           /\ Len(pubs) <= 1
           /\ (ack = "acked" => Len(pubs) = 1)

\* C6 witness: a route with a further step ended in the happy-terminal queue
C6_Witness ==
    /\ ResponseRouted /\ result.hres = "returned" /\ OutputCount(result.ret) = 0
    /\ ack = "acked"
    /\ SchemaValid(inbound.val)
    /\ CurrentOf(inbound.val) + 1 < Len(StepsOf(inbound.val))
    /\ pubs = << [queue |-> HappyEnd, msg |-> inbound] >>

\* the publish of response element v: current advanced by one, everything else
\* kept, sent to the next step's queue or to the happy-terminal queue
AdvancedBy(p, v) ==
    LET new == CurrentOf(v) + 1
    IN /\ p.msg.enc = "json"
       /\ p.msg.val.t = "dict"
       /\ DOMAIN p.msg.val.d = DOMAIN v.d
       /\ \A key \in DOMAIN v.d \ {"route"} : p.msg.val.d[key] = v.d[key]
       /\ CurrentOf(p.msg.val) = new
       /\ StepsOf(p.msg.val) = StepsOf(v)
       /\ (new < Len(StepsOf(v)) => p.queue = StepsOf(v)[new + 1].s)
       /\ (new = Len(StepsOf(v)) => p.queue = HappyEnd)
       /\ new <= Len(StepsOf(v))

\* C7: every success envelope of a response with N >= 1 elements is published
\* with current equal to the returned current plus one, to the queue of
\* steps[new current], or to the happy-terminal queue when new current equals
\* len(steps); in payload mode the published cursor is the inbound cursor plus
\* one, so a route is visited in list order.
C7_AdvanceAndPublish ==
    (ResponseRouted /\ outcome = "success")
        => /\ Len(plan) = Len(ResponseItems)
           /\ \A i \in 1..Len(pubs) : AdvancedBy(pubs[i], ResponseItems[i])
           /\ cfg.mode = "payload" =>
                \A i \in 1..Len(pubs) :
                    /\ CurrentOf(pubs[i].msg.val) = inbound.val.d["route"].d["current"].i + 1
                    /\ StepsOf(pubs[i].msg.val) = inbound.val.d["route"].d["steps"].items

\* C7 witness: one response whose outputs went to a step queue and to the
\* happy-terminal queue
C7_Witness ==
    /\ ResponseRouted /\ outcome = "success" /\ ack = "acked"
    /\ \E i \in 1..Len(pubs) : pubs[i].queue = HappyEnd
    /\ \E i \in 1..Len(pubs) : pubs[i].queue \notin {HappyEnd, ErrorEnd}

\* the sidecar read an error response of the runtime and routed it
ErrorResponseRouted == ResponseRouted /\ IsErrorResponse(ResponseItems)

\* C8 (as stated): for every error response, whatever its kind, the router
\* publishes exactly one error envelope wrapping the original inbound envelope to
\* the error-terminal queue and nothing else.
C8_EveryErrorToErrorEnd ==
    (ErrorResponseRouted /\ sc = "done" /\ ~pubFailed)
        => (ack = "acked" /\ Len(pubs) = 1 /\ WrapsInbound(pubs[1]))

\* C8 (amended): for every error response the router publishes nothing to a step
\* queue or to the happy-terminal queue and never advances current; for a fatal
\* kind it publishes exactly one error envelope wrapping the original inbound
\* envelope to the error-terminal queue; for a transient or recoverable kind it
\* either requeues the inbound message and publishes nothing, or publishes that
\* one error envelope.
C8_ErrorRouting ==
    /\ ErrorResponseRouted =>
        /\ Len(pubs) <= 1
        /\ \A i \in 1..Len(pubs) :
              WrapsInbound(pubs[i]) /\ pubs[i].msg.val.d["error"].s = outcome
        /\ (sc = "done" /\ ~pubFailed) =>
              \/ ack = "acked" /\ Len(pubs) = 1
              \/ ack = "nacked" /\ pubs = <<>> /\ Severity(outcome) # "fatal"
    /\ (ResponseRouted /\ result.hres = "raised" /\ handler.exc.type = "ValueError"
            /\ sc = "done" /\ ~pubFailed)
        => (ack = "acked" /\ Len(pubs) = 1 /\ WrapsInbound(pubs[1])
                /\ pubs[1].msg.val.d["error"].s = "processing_error")

\* C8 witness: a handler's ValueError reached the error-terminal queue
C8_Witness ==
    /\ ErrorResponseRouted /\ result.hres = "raised" /\ handler.exc.type = "ValueError"
    /\ ack = "acked" /\ Len(pubs) = 1 /\ WrapsInbound(pubs[1])

\* C9: the inbound message is acknowledged only after every outbound publish of
\* the delivery has been confirmed; once a publish has failed the delivery is
\* not acknowledged but negatively acknowledged.
C9_AckAfterConfirms ==
    /\ ack = "acked" => (pubs = plan /\ ~pubFailed)
    /\ pubFailed => ack = "nacked"

\* C9 witness: a delivery with several publishes was acknowledged
C9_Witness == ack = "acked" /\ Len(plan) >= 2 /\ pubs = plan

\* the delivery did not succeed: the sidecar classified it as an error, a
\* timeout or a socket failure, or the runtime failed the request
NonSuccess ==
    \/ outcome \notin {"none", "success", "empty"}
    \/ Served /\ (result.hres = "raised" \/ result.esc \/ inbound.enc # "json")

\* C10: a delivery whose outcome is not a success is either requeued or
\* published as an error envelope carrying the original message to the
\* error-terminal queue; it is never acknowledged without that publish.
C10_NoSilentDrop ==
    (NonSuccess /\ sc = "done")
        => \/ ack = "nacked"
           \/ ack = "acked" /\ Len(pubs) = 1 /\ WrapsInbound(pubs[1])

\* C10 witness: an undecodable request ended as an error envelope
C10_Witness ==
    /\ Served /\ inbound.enc # "json" /\ sc = "done"
    /\ ack = "acked" /\ Len(pubs) = 1 /\ WrapsInbound(pubs[1])

(***************************************************************************)
(* Invariants of the routes the router publishes.                          *)
(***************************************************************************)
\* a publish to the queue of a step, not to a terminal queue
ToStepQueue(p) == p.queue \notin {HappyEnd, ErrorEnd}

\* C11: with validation enabled, for every envelope the router publishes to a
\* non-terminal queue, the step just before the published cursor is the step
\* the inbound envelope of the delivery pointed at:
\* output.route.steps[output.route.current - 1] == I.route.steps[I.route.current].
C11_RouteInvariantPreserved ==
    (cfg.validation /\ ResponseRouted /\ outcome = "success" /\ SchemaValid(inbound.val))
        => \A i \in 1..Len(pubs) :
              ToStepQueue(pubs[i])
                  => StepsOf(pubs[i].msg.val)[CurrentOf(pubs[i].msg.val)]
                        = GetCurrentStep(inbound.val).val

Falsy(v) ==
    \/ v.t = "None"
    \/ v.t \in {"int", "bool"} /\ v.i = 0
    \/ v.t = "str" /\ v.s = ""
    \/ v.t \in {"list", "tuple"} /\ v.items = <<>>
    \/ v.t = "dict" /\ DOMAIN v.d = {}

\* mutant of ParseErrorMessage: original_message is never decoded, job_id is
\* read from the wrapper
ParseErrorMessageNoUnwrap(msg) ==
    IF "job_id" \notin DOMAIN msg.d \/ Falsy(msg.d["job_id"])
    THEN Raise("ValueError", "Missing required message key: job_id")
    ELSE Ok([job_id |-> msg.d["job_id"],
             payload |-> IF "payload" \in DOMAIN msg.d THEN msg.d["payload"]
                         ELSE PyDict(<<>>),
             error |-> IF "error" \in DOMAIN msg.d THEN msg.d["error"]
                       ELSE PyStr("Unknown error")])

\* parse_error_message(msg): an original_message that is a string (the raw
\* bytes of the inbound message) is decoded with json.loads; when that fails,
\* or when original_message is no string, the wrapper itself is used
ParseErrorMessage(msg) ==
    LET isStr == "original_message" \in DOMAIN msg.d
                    /\ msg.d["original_message"].t = "raw"
        decoded == IF isStr THEN ParseMsgJson(msg.d["original_message"].body)
                   ELSE Raise("", "")
        original_msg == IF isStr /\ decoded.ok THEN decoded.val ELSE msg
    IN
    IF original_msg.t # "dict"
    THEN Raise("AttributeError", "object has no attribute 'get'")
    ELSE IF "job_id" \notin DOMAIN original_msg.d \/ Falsy(original_msg.d["job_id"])
    THEN Raise("ValueError", "Missing required message key: job_id")
    ELSE Ok([job_id |-> original_msg.d["job_id"],
             payload |-> IF "payload" \in DOMAIN original_msg.d
                         THEN original_msg.d["payload"]
                         ELSE PyDict(<<>>),
             error |-> IF "error" \in DOMAIN msg.d THEN msg.d["error"]
                       ELSE PyStr("Unknown error")])

\* the inbound message is a JSON object that carries a job_id
InboundHasJobId ==
    /\ inbound.enc = "json"
    /\ inbound.val.t = "dict"
    /\ "job_id" \in DOMAIN inbound.val.d
    /\ ~Falsy(inbound.val.d["job_id"])

CarriesJobId(v) ==
    /\ v.t = "dict"
    /\ "job_id" \in DOMAIN v.d
    /\ v.d["job_id"] = inbound.val.d["job_id"]

\* the handler passed on what it was given: every item it returned is its
\* argument
PassesArgumentOn ==
    /\ result.hres = "returned"
    /\ handler.items # <<>>
    /\ \A i \in 1..Len(handler.items) : handler.items[i] = Self

\* C14: for an inbound envelope carrying job_id J, every envelope of the
\* runtime's success response and every envelope the router publishes for it
\* (next-step outputs, the happy-terminal envelope, the original_message of an
\* error envelope) carries job_id J.
C14_JobIdStable ==
    (InboundHasJobId /\ Served /\ complete)
        => /\ (SuccessResponse /\ PassesArgumentOn)
                => \A i \in 1..Len(result.resp) : CarriesJobId(result.resp[i])
           /\ \A i \in 1..Len(pubs) :
                 IF pubs[i].queue = ErrorEnd
                 THEN WrapsInbound(pubs[i])
                 ELSE PassesArgumentOn => CarriesJobId(pubs[i].msg.val)

(***************************************************************************)
(* Properties of the frame codec.                                          *)
(***************************************************************************)
\* C15: reading one frame from a stream onto which write(B) was performed
\* returns exactly B, consumes exactly 4 + len(B) bytes and leaves the bytes of
\* every following frame unread, however the stream splits the bytes into
\* chunks.
C15_FramingRoundTrip ==
    fr.phase = "done"
        => /\ fr.written # <<>>
           /\ fr.data = fr.written[1]
           /\ fr.consumed = 4 + Len(fr.written[1])
           /\ fr.stream = FramesOf(Tail(fr.written)) \o fr.cut

\* C15 witness: a frame with a body of several bytes was read while the whole
\* following frame was in the stream, and that frame is left unread
C15_Witness ==
    /\ fr.phase = "done"
    /\ Len(fr.data) >= 2
    /\ Len(fr.written) = 2
    /\ fr.stream = FrameOf(fr.written[2])
    /\ fr.consumed = 4 + Len(fr.data)

\* C20: if the peer closes the stream before the 4 length bytes or before all
\* L body bytes have arrived, request handling produces exactly one
\* connection_error element and the handler is not invoked; a frame received
\* only in part is never parsed or passed to the handler.
C20_PartialFrameIsConnectionError ==
    /\ fr.phase = "failed"
          => /\ ~fr.res.esc
             /\ OneError(fr.res.resp, "connection_error")
             /\ ~fr.res.called
    /\ (fr.closed /\ fr.written = <<>> /\ fr.stream = <<>>) => fr.phase # "done"
    /\ fr.phase = "done" => fr.written # <<>> /\ fr.data = fr.written[1]

\* C20 witness: the peer closed after the length bytes and one of two body
\* bytes had been read
C20_Witness ==
    /\ fr.phase = "failed"
    /\ fr.written = <<>>
    /\ Len(fr.cut) = 5
    /\ fr.consumed = 5
    /\ fr.chunks # <<>>
    /\ OneError(fr.res.resp, "connection_error")

(***************************************************************************)
(* Properties of input validation and of the handler call.                 *)
(***************************************************************************)
\* a whole request whose body is JSON was served
ServedJson == Served /\ complete /\ inbound.enc = "json"

\* C16: input validation accepts a decoded JSON value if and only if it is an
\* object with a payload key, a route that is an object, route.steps a list of
\* strings, route.current a JSON integer and 0 <= current < len(steps); every
\* other value is rejected with the validation error (ValueError).
C16_AcceptsExactlyTheSchema ==
    (cfg.validation /\ ServedJson)
        => IF SchemaValid(inbound.val)
           THEN ValidateMessageSyntax(inbound.val, PyNone).ok
           ELSE /\ ~ValidateMessageSyntax(inbound.val, PyNone).ok
                /\ ValidateMessageSyntax(inbound.val, PyNone).exc.type = "ValueError"

\* C17: for every envelope validation accepts, validating the validated result
\* again accepts it and returns it unchanged.
C17_SchemaIdempotent ==
    (cfg.validation /\ ServedJson /\ ValidateMessageSyntax(inbound.val, PyNone).ok)
        => LET once == ValidateMessageSyntax(inbound.val, PyNone).val
           IN /\ ValidateMessageSyntax(once, PyNone).ok
              /\ ValidateMessageSyntax(once, PyNone).val = once

\* C17 witness: an accepted envelope with a key validation does not keep was
\* served, so the validated result differs from the envelope
C17_Witness ==
    /\ cfg.validation /\ ServedJson
    /\ ValidateMessageSyntax(inbound.val, PyNone).ok
    /\ ValidateMessageSyntax(inbound.val, PyNone).val # inbound.val
    /\ result.called

\* C18: if the runtime returns a success response for a request with validation
\* enabled, it returns a success response for the same request, calling
\* convention and handler with validation disabled.
C18_ValidationMonotone ==
    (cfg.validation /\ ServedJson /\ SuccessResponse)
        => LET off == HandleRequest(TRUE, inbound, cfg.mode, FALSE, handler)
           IN ~off.esc /\ ~IsErrorResponse(off.resp)

OutputAt(v, i) == IF v.t \in {"list", "tuple"} THEN v.items[i] ELSE v

\* C21: in payload mode, for a valid input envelope with route R and a handler
\* that returns v without raising, _handle_request answers with the empty list
\* when v is None, with one envelope {payload: x, route: R} per element x of v,
\* in order, when v is a list or a tuple, and with the single envelope
\* {payload: v, route: R} otherwise; the route of every output is R unchanged.
C21_PayloadModeWrapping ==
    (cfg.mode = "payload" /\ ServedJson /\ SchemaValid(inbound.val)
        /\ result.hres = "returned")
        => /\ ~result.esc
           /\ Len(result.resp) = OutputCount(result.ret)
           /\ \A i \in 1..Len(result.resp) :
                 result.resp[i] =
                    PyDict(("payload" :> OutputAt(result.ret, i))
                           @@ ("route" :> inbound.val.d["route"]))

\* C21 witness: a tuple of two different payloads was wrapped into two
\* envelopes under the route of a two-step input
C21_Witness ==
    /\ cfg.mode = "payload" /\ ServedJson /\ SchemaValid(inbound.val)
    /\ result.hres = "returned"
    /\ result.ret.t = "tuple"
    /\ Len(result.resp) = 2
    /\ result.resp[1].d["payload"] # result.resp[2].d["payload"]
    /\ Len(StepsOf(inbound.val)) = 2
    /\ result.resp[2].d["route"] = inbound.val.d["route"]

\* the i-th output envelope of the request served, as the handler's returned
\* value determines it
OutputEnvelope(i) ==
    IF cfg.mode = "payload"
    THEN PyDict(("payload" :> OutputAt(result.ret, i))
                @@ ("route" :> inbound.val.d["route"]))
    ELSE OutputAt(result.ret, i)

\* C27: the outputs of one input are published in the order the handler
\* returned them: the response array lists the handler's outputs in the
\* handler's order, and the k messages published so far are the advanced
\* forms of the first k of them, in that order.
C27_PublishedInHandlerOrder ==
    (ResponseRouted /\ outcome = "success" /\ result.hres = "returned")
        => /\ Len(result.resp) = OutputCount(result.ret)
           /\ \A i \in 1..Len(result.resp) : result.resp[i] = OutputEnvelope(i)
           /\ Len(pubs) <= Len(result.resp)
           /\ \A i \in 1..Len(pubs) : pubs[i] = Advance(JsonOf(OutputEnvelope(i)))

\* C27 witness: both outputs of a fan-out of two different payloads were
\* published and the delivery was acknowledged
C27_Witness ==
    /\ ResponseRouted /\ outcome = "success" /\ result.hres = "returned"
    /\ ack = "acked"
    /\ Len(pubs) = 2
    /\ pubs[1].msg.val.d["payload"] # pubs[2].msg.val.d["payload"]

(***************************************************************************)
(* Properties of the per-request timeout.                                  *)
(***************************************************************************)
\* a message of the error-terminal queue that reports a timeout of the inbound
\* message
TimeoutEnvelope(p) ==
    /\ WrapsInbound(p)
    /\ p.msg.val.d["error"] = PyStr("timeout_error")

\* the next state belongs to another delivery
DeliveryEnds == conn' = "pending" \/ sc' = "idle"

\* C28: the per-request timeout is authoritative.  Once a delivery has timed
\* out the sidecar has closed the runtime socket and waits for no response;
\* the delivery is routed as one timeout_error (requeued, or one
\* timeout_error envelope for the error-terminal queue) and nothing else is
\* published for it; and until the delivery ends its classification stays
\* timeout_error, whatever the runtime produces afterwards.
C28_TimeoutIsAuthoritative ==
    /\ [](outcome = "timeout_error"
            => /\ peerClosed
               /\ sc \in {"publishing", "done"}
               /\ IF ack = "nacked" /\ ~pubFailed THEN plan = <<>>
                  ELSE Len(plan) = 1 /\ TimeoutEnvelope(plan[1])
               /\ pubs = SubSeq(plan, 1, Len(pubs)))
    /\ [][(outcome = "timeout_error" /\ ~DeliveryEnds)
            => /\ outcome' = "timeout_error"
               /\ plan' = plan
               /\ Len(pubs') <= Len(plan)]_vars

\* C28 witness: after the timeout the runtime produced a success response,
\* which met a closed socket; the delivery ended with the one timeout_error
\* envelope published and nothing else
C28_Witness ==
    /\ outcome = "timeout_error"
    /\ Served /\ result.hres = "returned" /\ ~result.esc
    /\ Len(result.resp) >= 1 /\ ~IsErrorResponse(result.resp)
    /\ send = "broken_pipe"
    /\ ack = "acked"
    /\ Len(pubs) = 1 /\ TimeoutEnvelope(pubs[1])

(***************************************************************************)
(* Properties of the output validation's error message and of the steps.   *)
(***************************************************************************)
\* the first output of the request served that fails output validation
FirstInvalid ==
    CHOOSE i \in 1..Len(Normalise(result.ret)) :
        OutputFails(i) /\ \A j \in 1..(i - 1) : ~OutputFails(j)

\* the message of the error element of a response
ErrorMessageOf(resp) == resp[1].d["details"].d["message"]

\* C29: in message mode with validation enabled, when an element of the
\* handler's output list of length N is invalid (a missing key, a wrong type,
\* an element that is no object, a route mismatch), the message of the
\* processing_error reads "Invalid output message[i/N]: ..." for the first
\* invalid index i, and for a route mismatch it names the expected and the
\* actual step.
C29_ErrorNamesFirstInvalidIndex ==
    (ServedJson /\ cfg.mode = "message" /\ cfg.validation /\ SchemaValid(inbound.val)
        /\ ValidationFailed /\ HandlerLeft = RequestMsg)
        => /\ ~result.esc
           /\ OneError(result.resp, "processing_error")
           /\ ErrorMessageOf(result.resp).s = "Invalid output message"
           /\ Len(ErrorMessageOf(result.resp).args) = 3
           /\ ErrorMessageOf(result.resp).args[1] = FirstInvalid - 1
           /\ ErrorMessageOf(result.resp).args[2] = Len(Normalise(result.ret))
           /\ ErrorMessageOf(result.resp).args[3].text = "Route mismatch"
                => ErrorMessageOf(result.resp).args[3].args =
                      << GetCurrentStep(RequestMsg).val,
                         GetCurrentStep(Normalise(result.ret)[FirstInvalid]).val >>

\* whether the sequence s is a prefix of the sequence t
IsPrefix(s, t) == Len(s) <= Len(t) /\ SubSeq(t, 1, Len(s)) = s

\* C30: a handler may append steps but not reorder or remove them: in message
\* mode with validation enabled, the steps of the input route are a prefix of
\* the steps of every output envelope of a success response.
C30_StepsOnlyAppended ==
    (cfg.mode = "message" /\ cfg.validation /\ ServedJson /\ SuccessResponse
        /\ SchemaValid(inbound.val))
        => \A i \in 1..Len(result.resp) :
              IsPrefix(StepsOf(inbound.val), StepsOf(result.resp[i]))

(***************************************************************************)
(* Properties of the start of the runtime process.                         *)
(***************************************************************************)
\* the handler name cannot be resolved to a callable of the host
HandlerUnresolvable(name) ==
    \/ name = <<>>
    \/ ~HandlerPattern(name)
    \/ ModulePath(name) \notin DOMAIN HostModules
    \/ FuncName(name) \notin DOMAIN HostModules[ModulePath(name)]
    \/ ~HostModules[ModulePath(name)][FuncName(name)]

\* C22: if handler loading fails at startup (ASYA_HANDLER unset, a name that
\* does not match the dotted-identifier pattern, a module that cannot be
\* imported, an attribute that is missing or not callable), the process exits
\* with a non-zero code, and the listening socket has not been created and no
\* connection has been accepted.
C22_LoadFailureExitsBeforeSocket ==
    (boot.pc # "off" /\ HandlerUnresolvable(boot.name))
        => /\ ~boot.created
           /\ ~boot.accepted
           /\ boot.pc \in {"starting", "exited"}
           /\ boot.pc = "exited" => boot.code # 0

\* C22 witness: the process started with ASYA_HANDLER = "../" has exited with
\* code 1
C22_Witness ==
    /\ boot.pc = "exited"
    /\ boot.name = <<".", ".", "/">>
    /\ boot.code = 1
    /\ ~boot.created

(***************************************************************************)
(* The terminal handlers (src/asya-actors/handlers/end_handlers.py), run   *)
(* as the handler of a runtime: one request is parsed, the handler         *)
(* extracts the job, persists it, reports it and returns, and the runtime  *)
(* turns what it returned or raised into the response.                     *)
(***************************************************************************)
\* dict.get(key, default)
DictGetOr(d, key, default) == IF key \in DOMAIN d.d THEN d.d[key] ELSE default

MissingJobId == Raise("ValueError", "Missing required message key: job_id")
NoGet == Raise("AttributeError", "object has no attribute 'get'")

\* mutant of HappyEndExtract: a message without job_id is processed under the
\* job_id None
HappyEndExtractLenient(msg) ==
    IF msg.t # "dict" THEN NoGet
    ELSE IF DictGetOr(msg, "route", PyDict(<<>>)).t # "dict" THEN NoGet
    ELSE Ok([ job_id |-> DictGetOr(msg, "job_id", PyNone),
              payload |-> DictGetOr(msg, "payload", PyDict(<<>>)),
              error |-> PyNone,
              status |-> "succeeded",
              route_steps |-> DictGetOr(DictGetOr(msg, "route", PyDict(<<>>)),
                                        "steps", PyList(<<>>)),
              current_index |-> DictGetOr(DictGetOr(msg, "route", PyDict(<<>>)),
                                          "current", PyNone) ])

\* happy_end_handler, lines 280-289: the job_id, the payload and the route
HappyEndExtract(msg) ==
    IF msg.t # "dict" THEN NoGet
    ELSE IF Falsy(DictGetOr(msg, "job_id", PyNone)) THEN MissingJobId
    ELSE IF DictGetOr(msg, "route", PyDict(<<>>)).t # "dict" THEN NoGet
    ELSE Ok([ job_id |-> msg.d["job_id"],
              payload |-> DictGetOr(msg, "payload", PyDict(<<>>)),
              error |-> PyNone,
              status |-> "succeeded",
              route_steps |-> DictGetOr(DictGetOr(msg, "route", PyDict(<<>>)),
                                        "steps", PyList(<<>>)),
              current_index |-> DictGetOr(DictGetOr(msg, "route", PyDict(<<>>)),
                                          "current", PyNone) ])

\* error_end_handler, lines 350-358: parse_error_message, then the route of
\* the message itself, then error_desc[:100] for the log line
ErrorEndExtract(msg) ==
    LET parsed == ParseErrorMessage(msg)
    IN
    IF msg.t # "dict" THEN NoGet
    ELSE IF ~parsed.ok THEN parsed
    ELSE IF DictGetOr(msg, "route", PyDict(<<>>)).t # "dict" THEN NoGet
    ELSE IF parsed.val.error.t \notin {"str", "list", "tuple"}
    THEN Raise("TypeError", "object is not subscriptable")
    ELSE Ok([ job_id |-> parsed.val.job_id,
              payload |-> parsed.val.payload,
              error |-> parsed.val.error,
              status |-> "failed",
              route_steps |-> DictGetOr(DictGetOr(msg, "route", PyDict(<<>>)),
                                        "steps", PyList(<<>>)),
              current_index |-> DictGetOr(DictGetOr(msg, "route", PyDict(<<>>)),
                                          "current", PyNone) ])

\* persist_to_s3, lines 160-165: the last step before the terminal queue
LastStep(route_steps, current_index) ==
    IF route_steps.t # "list" \/ current_index.t \notin {"int", "bool", "None"}
    THEN Raise("TypeError", "unsupported operand")
    ELSE IF route_steps.items # <<>> /\ current_index.t # "None" /\ current_index.i > 0
    THEN IF current_index.i - 1 < Len(route_steps.items)
         THEN Ok(route_steps.items[current_index.i])
         ELSE Raise("IndexError", "list index out of range")
    ELSE IF route_steps.items # <<>>
    THEN Ok(route_steps.items[Len(route_steps.items)])
    ELSE Ok(PyStr("unknown"))

\* persist_to_s3, lines 150-200: nothing when object storage is not
\* configured; otherwise one put_object, unless building the document fails;
\* every failure is caught and becomes an error record.  The time of day in
\* the key and in the document is left out.
PersistToS3(job, configured, putOk) ==
    LET last == LastStep(job.route_steps, job.current_index)
        doc == [ prefix |-> IF job.status = "succeeded" THEN "asya-results/"
                            ELSE "asya-errors/",
                 last_step |-> last.val,
                 route_steps |-> job.route_steps,
                 job_id |-> job.job_id,
                 status |-> job.status,
                 data |-> job.payload,
                 error |-> job.error,
                 ok |-> putOk ]
    IN
    IF ~configured THEN [info |-> PyDict(<<>>), puts |-> <<>>]
    ELSE IF ~last.ok
    THEN [info |-> PyDict("error" :> PyStr(last.exc.text)), puts |-> <<>>]
    ELSE IF ~putOk
    THEN [info |-> PyDict("error" :> PyStr("put_object failed")), puts |-> <<doc>>]
    ELSE [info |-> PyDict("s3_uri" :> PyStr("s3://bucket/key")), puts |-> <<doc>>]

\* what a POST to the gateway can come to
GatewayOutcomes == {"2xx", "non2xx", "timeout", "connection_error"}

\* mutant of ReportToGateway: a gateway timeout is not caught
ReportToGatewayTimeoutRaises(job, s3_info, configured, answer) ==
    LET post == [ job_id |-> job.job_id, status |-> job.status,
                  result |-> job.payload, error |-> job.error,
                  metadata |-> s3_info, answer |-> answer ]
    IN
    IF ~configured THEN [ok |-> TRUE, reported |-> TRUE, posts |-> <<>>]
    ELSE IF answer = "timeout"
    THEN [ok |-> FALSE, exc |-> Exc("Timeout", "timed out", <<>>), reported |-> FALSE,
          posts |-> <<post>>]
    ELSE [ok |-> TRUE, reported |-> answer = "2xx", posts |-> <<post>>]

\* mutant of ReportToGateway: the POST is repeated once after a status outside
\* 2xx or a timeout
ReportToGatewayRetries(job, s3_info, configured, answer) ==
    LET post == [ job_id |-> job.job_id, status |-> job.status,
                  result |-> job.payload, error |-> job.error,
                  metadata |-> s3_info, answer |-> answer ]
    IN
    IF ~configured THEN [ok |-> TRUE, reported |-> TRUE, posts |-> <<>>]
    ELSE IF answer \in {"non2xx", "timeout"}
    THEN [ok |-> TRUE, reported |-> FALSE, posts |-> <<post, post>>]
    ELSE [ok |-> TRUE, reported |-> answer = "2xx", posts |-> <<post>>]

\* report_to_gateway, lines 224-260: nothing when the gateway is not
\* configured; otherwise one POST; a status other than 200, 201, 204, a
\* timeout and any other exception are logged and give False
ReportToGateway(job, s3_info, configured, answer) ==
    LET post == [ job_id |-> job.job_id, status |-> job.status,
                  result |-> job.payload, error |-> job.error,
                  metadata |-> s3_info, answer |-> answer ]
    IN
    IF ~configured THEN [ok |-> TRUE, reported |-> TRUE, posts |-> <<>>]
    ELSE [ok |-> TRUE, reported |-> answer = "2xx", posts |-> <<post>>]

\* the messages delivered to a terminal step
JobEnvelope(cur) == WithJobId(Envelope(PyStr("p1"), <<AllSteps[1]>>, PyInt(cur)))
PlainEnvelope == Envelope(PyStr("p1"), <<AllSteps[1]>>, PyInt(0))
ErrorWrapper(original) ==
    PyDict(("error" :> PyStr("processing_error")) @@ ("original_message" :> original))
RawJson(body) == [t |-> "raw", body |-> body]

AbortedJob(cur) ==
    WithJobId(Envelope(PyStr("p1"), <<AllSteps[1], AllSteps[2]>>, PyInt(cur)))

EndMessages ==
    { JobEnvelope(0), JobEnvelope(1), AbortedJob(0), AbortedJob(1), PlainEnvelope,
      PyDict(PlainEnvelope.d @@ ("job_id" :> PyStr(""))),
      ErrorWrapper(RawJson(JsonBody(JobEnvelope(1)))),
      ErrorWrapper(JobEnvelope(1)),
      ErrorWrapper(RawJson(JsonBody(PlainEnvelope))),
      ErrorWrapper(PlainEnvelope),
      ErrorWrapper(RawJson(BadJson)),
      ErrorWrapper(RawJson(JsonBody(PyList(<<>>)))) }

\* a terminal message as the body of a request, or as the payload of one
EndBodies ==
    {JsonBody(m) : m \in EndMessages}
    \cup {JsonBody(Envelope(m, <<AllSteps[1]>>, PyInt(0))) : m \in EndMessages}

\* _handle_request, lines 210-247: the request is read and parsed; unless
\* that fails, the handler is called with the payload or the message
EndCall(kind, body, s3, gateway) ==
    LET parsed == ParseMsgJson(body)
        msg == IF parsed.ok /\ cfg.validation
               THEN ValidateMessageSyntax(parsed.val, PyNone)
               ELSE parsed
        arg == IF cfg.mode = "payload" THEN PyGetItem(msg.val, "payload") ELSE msg
        res == HandleRequest(TRUE, body, cfg.mode, cfg.validation, NoHandler)
    IN
    /\ eh.pc = "idle"
    /\ eh' = IF res.called
             THEN [EhIdle EXCEPT !.pc = "called", !.kind = kind, !.s3 = s3,
                                 !.gateway = gateway, !.req = msg.val, !.msg = arg.val,
                                 !.body = body]
             ELSE [EhIdle EXCEPT !.pc = "responded", !.kind = kind, !.s3 = s3,
                                 !.gateway = gateway, !.resp = res.resp, !.body = body]
    /\ UNCHANGED <<runtimeVars, fr, boot>>

\* the handler's first lines: it raises, or goes on with the job
EndExtract ==
    LET r == IF eh.kind = "happy" THEN HappyEndExtract(eh.msg)
             ELSE ErrorEndExtract(eh.msg)
    IN
    /\ eh.pc = "called"
    /\ eh' = IF r.ok
             THEN [eh EXCEPT !.pc = "extracted", !.extracted = TRUE, !.job = r.val]
             ELSE [eh EXCEPT !.pc = "raised", !.hres = "raised", !.exc = r.exc]
    /\ UNCHANGED <<runtimeVars, fr, boot>>

\* s3_info = persist_to_s3(...)
EndPersist(putOk) ==
    LET r == PersistToS3(eh.job, eh.s3, putOk)
    IN
    /\ eh.pc = "extracted"
    /\ eh.s3 \/ putOk
    /\ eh' = [eh EXCEPT !.pc = "persisted", !.puts = eh.puts \o r.puts,
                        !.s3_info = r.info]
    /\ UNCHANGED <<runtimeVars, fr, boot>>

\* report_to_gateway(...), and return {}
EndReport(answer) ==
    LET r == ReportToGateway(eh.job, eh.s3_info, eh.gateway, answer)
    IN
    /\ eh.pc = "persisted"
    /\ eh.gateway \/ answer = "2xx"
    /\ eh' = IF r.ok
             THEN [eh EXCEPT !.pc = "returned", !.hres = "returned",
                             !.posts = eh.posts \o r.posts, !.ret = PyDict(<<>>)]
             ELSE [eh EXCEPT !.pc = "raised", !.hres = "raised",
                             !.posts = eh.posts \o r.posts, !.exc = r.exc]
    /\ UNCHANGED <<runtimeVars, fr, boot>>

\* _handle_request, lines 236-277: the response for what the handler returned
\* or raised
EndRespond ==
    LET h == IF eh.hres = "raised" THEN HRaise(eh.exc)
             ELSE HReturn("none", "single", <<Lit(eh.ret)>>)
    IN
    /\ eh.pc \in {"returned", "raised"}
    /\ eh' = [eh EXCEPT !.pc = "responded",
                        !.resp = ProcessMessage(eh.req, cfg.mode, cfg.validation, h).resp]
    /\ UNCHANGED <<runtimeVars, fr, boot>>

\* the sidecar of a terminal step (sections 4.6 and 4.7): an empty response
\* means the message is fully consumed, nothing is routed downstream; every
\* other response goes through the router
TerminalDispositions(items) ==
    IF items = <<>> THEN {"consume"} ELSE ResponseDispositions(items)

TerminalPlan(original, items) ==
    IF items = <<>> THEN <<>> ELSE ResponsePlan(original, items)

\* the sidecar of the terminal step reads the response and disposes of the
\* delivery
EndRoute(d) ==
    LET items == JsonOf(PyList(eh.resp)).items
    IN
    /\ eh.pc = "responded"
    /\ d \in TerminalDispositions(items)
    /\ eh' = [eh EXCEPT !.pc = "routed",
                        !.disposal = d,
                        !.published = IF d \in {"consume", "requeue"} THEN <<>>
                                      ELSE TerminalPlan(eh.body, items)]
    /\ UNCHANGED <<runtimeVars, fr, boot>>

EndNext ==
    \/ \E kind \in {"happy", "error"}, body \in EndBodies, s3 \in BOOLEAN,
          gateway \in BOOLEAN : EndCall(kind, body, s3, gateway)
    \/ EndExtract
    \/ \E putOk \in BOOLEAN : EndPersist(putOk)
    \/ \E answer \in GatewayOutcomes : EndReport(answer)
    \/ EndRespond
    \/ \E d \in {"consume", "publish", "requeue", "terminal"} : EndRoute(d)

EndSpec == Init /\ [][EndNext]_vars

(***************************************************************************)
(* Properties of the terminal handlers.                                    *)
(***************************************************************************)
\* the value is an object with a usable job_id
JobIdOn(v) == v.t = "dict" /\ "job_id" \in DOMAIN v.d /\ ~Falsy(v.d["job_id"])

\* the envelope an error wrapper holds: a parsed object, or what its JSON
\* string encodes
WrappedEnvelope(msg) ==
    IF msg.d["original_message"].t = "raw"
    THEN ParseMsgJson(msg.d["original_message"].body)
    ELSE Ok(msg.d["original_message"])

\* the message carries no job_id: none on the message, and for the
\* error-terminal handler none on the envelope it wraps either
JobIdAbsent(kind, msg) ==
    /\ ~JobIdOn(msg)
    /\ (kind = "error" /\ msg.t = "dict" /\ "original_message" \in DOMAIN msg.d)
          => ~(WrappedEnvelope(msg).ok /\ JobIdOn(WrappedEnvelope(msg).val))

\* the terminal handler has been called and has gone past its first lines
HandlerStarted == eh.pc \in {"extracted", "persisted", "returned", "raised"}
                    \/ (eh.pc \in {"responded", "routed"} /\ eh.hres # "none")

C24_ReportingFailuresSwallowed ==
    eh.extracted
        => /\ eh.hres # "raised"
           /\ eh.pc \in {"extracted", "persisted", "returned", "responded", "routed"}
           /\ eh.pc \in {"returned", "responded", "routed"}
                 => eh.hres = "returned" /\ eh.ret = PyDict(<<>>)

\* C24 witness: the object-storage write failed and the gateway timed out,
\* and the error-terminal handler returned the empty dict
C24_Witness ==
    /\ eh.pc = "returned" /\ eh.kind = "error"
    /\ Len(eh.puts) = 1 /\ ~eh.puts[1].ok
    /\ Len(eh.posts) = 1 /\ eh.posts[1].answer = "timeout"
    /\ eh.ret = PyDict(<<>>)

\* C25: when a terminal handler runs as the runtime's handler, in either
\* calling convention, and completes, the runtime's response is the empty
\* array: no output envelope and no error element.
C25_TerminalResponseIsEmpty ==
    (eh.pc = "responded" /\ eh.hres = "returned") => eh.resp = <<>>

\* the message is an error wrapper {error, original_message} whose
\* original_message is an envelope, or a JSON string encoding one, with a
\* job_id and a payload
WrapsJobEnvelope(msg) ==
    /\ msg.t = "dict"
    /\ DOMAIN msg.d = {"error", "original_message"}
    /\ WrappedEnvelope(msg).ok
    /\ JobIdOn(WrappedEnvelope(msg).val)
    /\ "payload" \in DOMAIN WrappedEnvelope(msg).val.d

\* C26: for every error wrapper whose original_message is a parsed envelope or
\* a JSON string encoding an envelope with job_id J and payload P, the
\* error-terminal handler extracts J, P and the wrapper's error text, and does
\* not fail for a missing job_id.
C26_WrapperUnwrapped ==
    (HandlerStarted /\ eh.kind = "error" /\ WrapsJobEnvelope(eh.msg))
        => /\ eh.extracted
           /\ eh.job.job_id = WrappedEnvelope(eh.msg).val.d["job_id"]
           /\ eh.job.payload = WrappedEnvelope(eh.msg).val.d["payload"]
           /\ eh.job.error = eh.msg.d["error"]

(***************************************************************************)
(* Properties of the cursor and of the shape of a success response.        *)
(***************************************************************************)
\* C31: a handler cannot move its own cursor: in message mode with validation
\* enabled, the cursor of every output envelope the runtime accepts equals the
\* cursor of the input envelope, also when a step name occurs more than once
\* or when the handler inserts steps before the cursor.
C31_CursorNotMoved ==
    (cfg.mode = "message" /\ cfg.validation /\ ServedJson /\ SuccessResponse
        /\ SchemaValid(inbound.val) /\ HandlerLeft = RequestMsg)
        => \A i \in 1..Len(result.resp) :
              CurrentOf(result.resp[i]) = CurrentOf(inbound.val)

\* the runtime itself detected an error in the request served: the frame was
\* cut, the body was rejected, the handler raised, or its outputs failed the
\* output validation
RuntimeDetectedError ==
    \/ ~complete
    \/ ~result.called
    \/ result.hres = "raised"
    \/ ValidationFailed

\* C40: the success/error discrimination of a response is unambiguous: a
\* response whose first element has a top-level error key is produced only
\* when the runtime itself detected an error, and a success response built
\* from handler outputs (message mode, validation enabled) has no element with
\* a top-level key other than payload and route.
C40_DiscriminationUnambiguous ==
    (cfg.mode = "message" /\ cfg.validation /\ Served /\ ~result.esc)
        => /\ IsErrorResponse(result.resp) => RuntimeDetectedError
           /\ ~RuntimeDetectedError
                => \A i \in 1..Len(result.resp) :
                      DOMAIN result.resp[i].d \subseteq {"payload", "route"}

(***************************************************************************)
(* Progress of an envelope along its route in payload mode.                *)
(***************************************************************************)
\* a delivery of a valid envelope whose handler returned was disposed of, with
\* no timeout and every publish confirmed
ReturnedAndDisposed ==
    /\ cfg.mode = "payload"
    /\ ServedJson /\ SchemaValid(inbound.val)
    /\ result.hres = "returned"
    /\ sc = "done" /\ ~pubFailed /\ outcome # "timeout_error"

\* the published message p is one step further on the route of the inbound
\* envelope
OneStepFurther(p) ==
    /\ StepsOf(p.msg.val) = StepsOf(inbound.val)
    /\ CurrentOf(p.msg.val) = CurrentOf(inbound.val) + 1

\* C39: in payload mode, with a broker that delivers every published message
\* and handlers that always return, every envelope reaches the happy-terminal
\* or the error-terminal queue after at most n handler executions along each
\* fan-out branch: a delivery whose handler returned is never requeued, and
\* everything it publishes goes to a terminal queue or is one step further on
\* the same route, so that no envelope circulates among step queues forever.
C39_PayloadModeTerminates ==
    ReturnedAndDisposed
        => /\ ack = "acked"
           /\ \A i \in 1..Len(pubs) :
                 pubs[i].queue \in {HappyEnd, ErrorEnd} \/ OneStepFurther(pubs[i])

(***************************************************************************)
(* Properties of what the terminal handlers persist.                       *)
(***************************************************************************)
\* the route of the envelope an error wrapper holds
WrappedRoute(msg) == WrappedEnvelope(msg).val.d["route"]

\* the value is an object with a route that has steps and a cursor
HasRoute(v) ==
    /\ v.t = "dict" /\ "route" \in DOMAIN v.d
    /\ v.d["route"].t = "dict"
    /\ {"steps", "current"} \subseteq DOMAIN v.d["route"].d

\* C35: for a wrapped error, the error-terminal handler recovers the route
\* from the unwrapped original_message: the route_steps and the last_step of
\* the persisted error document and of its storage key are those of the
\* original envelope's route, not of the wrapper.
C35_RouteOfOriginalPersisted ==
    (eh.kind = "error" /\ eh.extracted /\ WrapsJobEnvelope(eh.msg)
        /\ HasRoute(WrappedEnvelope(eh.msg).val))
        => \A i \in 1..Len(eh.puts) :
              /\ eh.puts[i].route_steps = WrappedRoute(eh.msg).d["steps"]
              /\ eh.puts[i].last_step =
                    LastStep(WrappedRoute(eh.msg).d["steps"],
                             WrappedRoute(eh.msg).d["current"]).val

\* an envelope as it arrives on the happy-terminal queue: its cursor is past
\* the final step (the pipeline ran to completion) or on a step of the route
\* (that step answered with an empty response)
ArrivesAtHappyEnd(v) ==
    /\ HasRoute(v)
    /\ v.d["route"].d["steps"].t = "list"
    /\ StepsOf(v) # <<>>
    /\ v.d["route"].d["current"].t = "int"
    /\ CurrentOf(v) \in 0..Len(StepsOf(v))

\* the step whose handler processed the envelope last
ProcessedLast(v) ==
    IF CurrentOf(v) = Len(StepsOf(v)) THEN StepsOf(v)[Len(StepsOf(v))]
    ELSE StepsOf(v)[CurrentOf(v) + 1]

\* C38: the last_step that the happy-terminal handler records (document field
\* and storage key segment) is the name of the step whose handler last
\* processed the envelope, both when the pipeline ran to completion (the
\* cursor is past the final step) and when it was aborted by an empty response
\* (the route is unchanged, the cursor points at the aborting step).
C38_LastStepIsLastProcessed ==
    (eh.kind = "happy" /\ eh.extracted /\ ArrivesAtHappyEnd(eh.msg))
        => \A i \in 1..Len(eh.puts) : eh.puts[i].last_step = ProcessedLast(eh.msg)

\* what the metadata of a POST must be, given the storage attempt made before
\* it: the storage location, an error record, or nothing
MetadataOfAttempt(metadata) ==
    IF ~eh.s3 THEN metadata = PyDict(<<>>)
    ELSE IF eh.puts # <<>> /\ eh.puts[1].ok
    THEN "s3_uri" \in DOMAIN metadata.d /\ "error" \notin DOMAIN metadata.d
    ELSE DOMAIN metadata.d = {"error"}

\* C37: in every terminal-handler invocation that has a job_id, the
\* object-storage write is attempted before the gateway POST, the POST is
\* attempted at most once (no retry after a status outside 2xx or a timeout),
\* and the POST's metadata is the outcome of that storage attempt: the storage
\* location on success, an error record on failure, empty when storage is not
\* configured.
C37_PersistThenReportOnce ==
    eh.extracted
        => /\ Len(eh.puts) <= 1
           /\ Len(eh.posts) <= 1
           /\ eh.puts # <<>> => eh.s3
           /\ eh.posts # <<>> => eh.gateway
           /\ eh.pc = "extracted" => eh.puts = <<>> /\ eh.posts = <<>>
           /\ eh.pc = "persisted" => eh.posts = <<>>
           /\ (eh.posts # <<>> /\ eh.s3
                  /\ LastStep(eh.job.route_steps, eh.job.current_index).ok)
                 => Len(eh.puts) = 1
           /\ \A i \in 1..Len(eh.posts) :
                 /\ MetadataOfAttempt(eh.posts[i].metadata)
                 /\ eh.posts[i].metadata = eh.s3_info

\* C37 witness: the storage write failed, the gateway answered with a status
\* outside 2xx, and the single POST carried the error record
C37_Witness ==
    /\ eh.pc = "returned" /\ eh.s3 /\ eh.gateway
    /\ Len(eh.puts) = 1 /\ ~eh.puts[1].ok
    /\ Len(eh.posts) = 1 /\ eh.posts[1].answer = "non2xx"
    /\ DOMAIN eh.posts[1].metadata.d = {"error"}

C32_OneConnectionAtATime ==
    /\ boot.open <= 1
    /\ boot.calls <= 1
    /\ boot.reads <= 1
    /\ boot.pc = "listening" => (boot.open = 0 /\ boot.calls = 0)
    /\ boot.pc \in {"reading", "handling", "sending"} => boot.open = 1
    /\ boot.pc = "reading" => boot.reads = 0
    /\ boot.pc \in {"handling", "sending"} => boot.reads = 1
    /\ boot.calls = 1 <=> boot.pc = "handling"
    /\ boot.pc = "exited" => boot.open = 0

\* two connections have been served, the response of the first could not be
\* written and the handler of the second raised, and the runtime is at accept
\* again
C32_Witness ==
    /\ boot.pc = "listening"
    /\ boot.open = 0
    /\ boot.prev \in {"not_sent", "broken_pipe"}
    /\ boot.log # <<>>
    /\ boot.log[1].res.called /\ boot.log[1].res.hres = "raised"

\* the response the runtime owes to the connection it served last
OwedResponse ==
    HandleRequest(boot.log[1].whole, boot.log[1].body, boot.argType, cfg.validation,
                  boot.log[1].h).resp

\* the write to the connection served last failed with a broken pipe
AfterBrokenPipe ==
    /\ boot.log # <<>>
    /\ boot.log[1].send = "broken_pipe"

\* C33: when the client has closed its end before the runtime writes the
\* response, the failure of the write is contained: the runtime closes that
\* connection, does not exit, and accepts and serves the next connection with
\* a correct response
C33_BrokenPipeContained ==
    /\ [][(boot.pc = "sending" /\ boot.cur.peerGone /\ boot'.pc # "sending")
          => (/\ boot'.pc = "listening"
              /\ boot'.open = 0
              /\ boot'.sock = boot.sock
              /\ boot'.log[1].body = boot.cur.body)]_vars
    /\ []((boot.prev = "broken_pipe" /\ boot.log[1].send = "sent")
            => boot.log[1].res.resp = OwedResponse)
    /\ (AfterBrokenPipe /\ boot.pc = "listening" /\ boot.backlog # <<>>)
          ~> (boot.pc = "reading" \/ boot.signalled)
    /\ (AfterBrokenPipe /\ boot.pc = "reading")
          ~> (boot.pc = "exited" \/ (boot.pc = "listening" /\ boot.prev = "broken_pipe"))

\* the write to the first connection failed with a broken pipe and the second
\* connection got the response of its own request
C33_Witness ==
    /\ boot.prev = "broken_pipe"
    /\ boot.log # <<>>
    /\ boot.log[1].send = "sent"
    /\ boot.log[1].res.called
    /\ boot.pc = "listening"
    /\ ~boot.signalled

\* C34: once SIGINT or SIGTERM has been handled, the listening socket is
\* closed and the socket file is unlinked, no further connection is ever
\* accepted, and, provided a handler call in flight returns, the serve loop
\* terminates; running the cleanup a second time on loop exit is harmless
C34_SignalShutsDown ==
    /\ [](boot.signalled => (~boot.sock /\ ~boot.file /\ boot.backlog = <<>>))
    /\ [][boot.signalled => ~(boot.pc = "listening" /\ boot'.pc = "reading")]_vars
    /\ boot.signalled ~> (boot.pc = "exited")
    /\ [][(boot.signalled /\ boot'.pc = "exited" /\ boot.pc # "handling")
          => (boot.pc \in {"listening", "exited"} /\ boot'.code = 0)]_vars

\* a signal was handled while a connection was being served, that connection
\* was served to its end, and the loop ended after a further cleanup
C34_Witness ==
    /\ boot.pc = "exited"
    /\ boot.code = 0
    /\ boot.signalled
    /\ boot.log # <<>>
    /\ boot.log[1].signalled
    /\ boot.log[1].send = "sent"

====
